---------------------------- MODULE Spec2Model ----------------------------
(***************************************************************************)
(* A model of TFMethods.py: the time-frequency decompositions of           *)
(* TimeFrequencyDecomposition (DFT/iDFT, STFT/iSTFT, MCSTFT, GLA, the      *)
(* PQMF adapters, the cosine-modulated real transform with its             *)
(* process-wide basis matrix) and the construction of PsychoacousticModel. *)
(*                                                                         *)
(* Conventions.  The file is Python 2 code: "/" between integers is floor  *)
(* division (len(x)/N sizes arrays and bounds range() loops), written \div *)
(* here.  Real numbers are kept exact: a window is a sequence of integers  *)
(* together with the integer whose inverse square root scales it, spectra  *)
(* are elements of the cyclotomic ring Z[z], z = exp(2*pi*i/12), and every *)
(* comparison of scaled values is done on integers.                        *)
(***************************************************************************)
EXTENDS Integers, Sequences, FiniteSets, TLC

VARIABLES
    Cos,        \* the module global Cos of coreModulation / real_analysis / real_synthesis
    lastCall,   \* what the last call of the cosine transform family did
    pm,         \* the PsychoacousticModel instance last constructed
    frame,      \* a frame on its way through DFT and iDFT
    sig,        \* the caller's signal (its channels), FFT size and hop
    win,        \* the caller's window array, which STFT scales in place
    ncalls,     \* how many STFT calls the window array has been passed to
    stft,       \* the last STFT or MCSTFT call and what it returned
    syn,        \* the last iSTFT or istfrft call and what it returned
    qrf,        \* the real-time state of the QMF codec
    pq,         \* the last pqmf_analysis or pqmf_synthesis call and what it returned
    fr,         \* a signal given to frft, and what frft and ifrft returned for it
    psy,        \* the last call of a PsychoacousticModel method or of a WDODisjointness metric
    thr         \* two concurrent callers of real_analysis

cacheVars == <<Cos, lastCall, pm>>
dftVars == <<frame>>
stftVars == <<sig, win, ncalls, stft>>
synVars == <<syn>>
pqmfVars == <<qrf, pq>>
frftVars == <<fr>>
psyVars == <<psy>>
raceVars == <<thr>>

(***************************************************************************)
(* Bounds of the model.                                                    *)
(***************************************************************************)
MaxSubbands == 3
MaxBlocks == 3
MaxFilts == 4

Subbands == 1..MaxSubbands
SignalLens == 0..((MaxBlocks + 1) * MaxSubbands)
BasisTypes == {"MDCT", "PQMF-polyphase", "DCT-IV"}
BarkTypes == {"rasta", "peaq", "mel"}
WindowKinds == {"cosine", "hanning"}
WindowLens == 1..(2 * MaxSubbands)
PsyFFTSizes == {4, 12}
FilterCounts == {0} \cup (2..MaxFilts)
MaxWsz == 3
FrameLens == 1..MaxWsz
SampleVals == {-1, 0, 1}
WindowVals == {1, 2}
MaxCalls == 3
ChannelCounts == {1, 2}
MaxLen == 2
STFTSampleVals == {0, 1}
STFTSizes == {2, 3}
Hops == {1, 2}
OLASizes == {2, 4, 6}
OLAFrameLens == {2, 3, 4}
Builds == {"ignore", "raise"}
MaxFrames == 8
MaxArray == 3
MaxOrder == 4
Orders == (0 - 4 * MaxOrder)..(4 * MaxOrder)
MaxSlots == 3
MaxResets == 3
Remainders == {0, 1, 2, 511, 512, 513, 1022, 1023}
OLASignals == {<<>>, <<1>>, <<1, 0>>, <<0, 1, 1>>}
Windows == {<<1>>, <<1, 1>>, <<1, 2, 1>>, <<1, 2, 2, 1>>}

(***************************************************************************)
(* Exact arithmetic.  A complex number is <<a, b, c, d>>, standing for     *)
(* a + b*z + c*z^2 + d*z^3 with z = exp(2*pi*i/12), so z^4 = z^2 - 1.  The *)
(* N-th roots of unity are powers of z for every N dividing 12, which are  *)
(* the FFT sizes of the model.  A real number of this ring is p + q*sqrt(3)*)
(* and is kept as <<p, q>>.                                                *)
(***************************************************************************)
FFTSizes == {1, 2, 3, 4, 6}

CZero == <<0, 0, 0, 0>>
CInt(n) == <<n, 0, 0, 0>>
CAdd(u, v) == <<u[1] + v[1], u[2] + v[2], u[3] + v[3], u[4] + v[4]>>
CScale(n, u) == <<n * u[1], n * u[2], n * u[3], n * u[4]>>
CTimesZ(u) == <<0 - u[4], u[1], u[2] + u[4], u[3]>>
CConj(u) == <<u[1] + u[3], u[2], 0 - u[3], 0 - u[2] - u[4]>>

RECURSIVE CTimesZPow(_, _)
CTimesZPow(u, m) == IF m = 0 THEN u ELSE CTimesZPow(CTimesZ(u), m - 1)

CMul(u, v) ==
    CAdd(CAdd(CScale(v[1], u), CScale(v[2], CTimesZPow(u, 1))),
         CAdd(CScale(v[3], CTimesZPow(u, 2)), CScale(v[4], CTimesZPow(u, 3))))

\* u * exp(2*pi*i*e/N), for N dividing 12 and any integer e >= 0
CTimesRoot(u, N, e) == CTimesZPow(u, ((e % N) * (12 \div N)) % 12)

\* twice the real part of u, as <<p, q>> for p + q*sqrt(3)
TwiceRe(u) == <<2 * u[1] + u[3], u[2]>>

RECURSIVE CSum(_, _, _)
\* the sum of f[k] for k in lo..hi
CSum(f, lo, hi) == IF lo > hi THEN CZero ELSE CAdd(f[lo], CSum(f, lo + 1, hi))

RECURSIVE ISum(_, _, _)
ISum(f, lo, hi) == IF lo > hi THEN 0 ELSE f[lo] + ISum(f, lo + 1, hi)

\* scipy.fftpack.fft(buf): X[k] = sum_n buf[n] * exp(-2*pi*i*k*n/N), bins 0..N-1
\* (sequence index k + 1).
fft(buf) ==
    LET N == Len(buf)
    IN  [k1 \in 1..N |->
           CSum([n1 \in 1..N |->
                   CTimesRoot(CInt(buf[n1]), N, N - (((k1 - 1) * (n1 - 1)) % N))],
                1, N)]

\* N * scipy.fftpack.ifft(Y): sum_k Y[k] * exp(+2*pi*i*k*n/N)
ifftTimesN(Y) ==
    LET N == Len(Y)
    IN  [n1 \in 1..N |->
           CSum([k1 \in 1..N |-> CTimesRoot(Y[k1], N, (k1 - 1) * (n1 - 1))], 1, N)]

(***************************************************************************)
(* DFT and iDFT of one frame.  (magX, phsX) is the polar form of the       *)
(* complex bins X[0 .. N//2]; magX * exp(1j*phsX) is X and                 *)
(* magX * exp(-1j*phsX) its conjugate, so a spectral frame is kept as the  *)
(* sequence of its complex bins.                                           *)
(***************************************************************************)
hw1Of(wsz) == (wsz + 1) \div 2
hw2Of(wsz) == wsz \div 2

NoBins == <<>>

\* fftbuffer = zeros(N); fftbuffer[:hw1] = winx[hw2:]; fftbuffer[-hw2:] = winx[:hw2]
\* The second assignment is made last and wins where the two overlap.
ZeroPhaseBuffer(winx, N) ==
    LET wsz == Len(winx)
        hw1 == hw1Of(wsz)
        hw2 == hw2Of(wsz)
    IN  [i1 \in 1..N |->
           IF i1 - 1 >= N - hw2 THEN winx[(i1 - 1) - (N - hw2) + 1]
           ELSE IF i1 - 1 < hw1 THEN winx[hw2 + i1]
           ELSE 0]

\* The slice assignments of DFT that numpy refuses: with hw2 = 0 the target
\* fftbuffer[-0:] is the whole buffer and the source winx[:0] is empty; with
\* hw1 > N the source is longer than the target.
DFTRaises(wsz, N) == wsz = 1 \/ hw1Of(wsz) > N

\* hlfN = (N//2)+1
HalfSpectrumSize(N) == (N \div 2) + 1

\* DFT(x, w, N) on the integer frame x and the integer window values w
DFT(x, w, N) ==
    LET wsz == Len(w)
        winx == [i \in 1..wsz |-> x[i] * w[i]]
    IN  IF DFTRaises(wsz, N)
        THEN [raised |-> TRUE, bins |-> NoBins]
        ELSE [raised |-> FALSE,
              bins |-> SubSeq(fft(ZeroPhaseBuffer(winx, N)), 1, HalfSpectrumSize(N))]

\* N = (hlfN-1)*2
InferredSize(hlfN) == (hlfN - 1) * 2

\* Y[0:hlfN] = magX * exp(1j*phsX); Y[hlfN:] = magX[-2:0:-1] * exp(-1j*phsX[-2:0:-1]):
\* bin k >= hlfN is the conjugate of bin hlfN-2-(k-hlfN) = N-k.
HermitianCompletion(bins) ==
    LET hlfN == Len(bins)
        N == InferredSize(hlfN)
    IN  [k1 \in 1..N |-> IF k1 <= hlfN THEN bins[k1] ELSE CConj(bins[N - (k1 - 1) + 1])]

\* iDFT raises when ifft gets an empty array (one bin), and when the
\* roll-back slices do not match: y[:0] = fftbuffer[-0:] for wsz = 1, or a
\* window half longer than the buffer.
iDFTRaises(hlfN, wsz) ==
    hlfN < 2 \/ wsz = 1 \/ hw1Of(wsz) > InferredSize(hlfN)

\* iDFT(magX, phsX, wsz).  y is returned times 2N, N the inferred size, each
\* sample as <<p, q>> for p + q*sqrt(3):
\* y[:hw2] = fftbuffer[-hw2:]; y[hw2:] = fftbuffer[:hw1]
iDFT(bins, wsz) ==
    LET hlfN == Len(bins)
        N == InferredSize(hlfN)
        hw2 == hw2Of(wsz)
    IN  IF iDFTRaises(hlfN, wsz)
        THEN [raised |-> TRUE, N |-> N, y |-> <<>>]
        ELSE LET fftbuffer == ifftTimesN(HermitianCompletion(bins))
             IN  [raised |-> FALSE, N |-> N,
                  y |-> [i1 \in 1..wsz |->
                           TwiceRe(IF i1 <= hw2 THEN fftbuffer[N - hw2 + i1]
                                                ELSE fftbuffer[i1 - hw2])]]

(***************************************************************************)
(* The cosine-modulated real transform and its cached basis matrix.        *)
(* A matrix is kept by what determines it: its shape, the basis formula    *)
(* that filled it and the window that weighted it.                         *)
(***************************************************************************)
NoCos == [defined |-> FALSE, rows |-> 0, cols |-> 0, basis |-> "none", win |-> "none"]

NoCall ==
    [op |-> "none", N |-> 0, cachedRows |-> 0, hit |-> FALSE, rebuilt |-> FALSE,
     usedRows |-> 0, usedCols |-> 0, usedBasis |-> "none", usedWin |-> "none",
     blocks |-> 0, nfilts |-> 0, outcome |-> "none"]

NoModel == [built |-> FALSE, type |-> "none", nfft |-> 0, nfilts |-> 0, nfreqs |-> 0,
            Wrows |-> 0, Wcols |-> 0, WinvRows |-> 0, WinvCols |-> 0,
            W |-> {}, nanBands |-> {}]

\* coreModulation(win, N, type): Cos = zeros((N, len(win))) is assigned to the
\* global first; the two known types fill it; the else branch is
\* assert('Unknown type'), an assert of a non-empty string, which passes:
\* the zero matrix stays in the global and is returned.
coreModulation(winKind, lfb, N, type) ==
    [raised |-> FALSE,
     matrix |-> [defined |-> TRUE, rows |-> N, cols |-> lfb,
                 basis |-> IF type \in {"MDCT", "PQMF-polyphase"} THEN type ELSE "zeros",
                 win |-> IF type \in {"MDCT", "PQMF-polyphase"} THEN winKind ELSE "none"]]

\* A cache test that only asks whether the global exists.
CacheHitAnySize(c, N) == c.defined

\* 'Cos' in glvars and ((glvars['Cos'].T).shape[1] == N)
CacheHit(c, N) == c.defined /\ c.rows = N

\* The matrix the projection loop of a call reads: the global as found on a
\* hit, the freshly built one (also stored in the global) otherwise.
MatrixUsed(c, N) ==
    IF CacheHit(c, N) THEN c ELSE coreModulation("cosine", 2 * N, N, "MDCT").matrix

\* real_analysis(x, N), len(x) = L: len(x)/N - 2 blocks of 2N samples are
\* projected by np.dot(x[m*N : m*N + lfb], Cos.T), which needs 2N columns.
real_analysis(L, N) ==
    LET hit == CacheHit(Cos, N)
        used == MatrixUsed(Cos, N)
        nTimeSlots == (L \div N) - 2
        fits == used.cols = 2 * N
    IN  /\ Cos' = used
        /\ lastCall' =
             [op |-> "real_analysis", N |-> N, cachedRows |-> Cos.rows, hit |-> hit,
              rebuilt |-> ~hit, usedRows |-> used.rows, usedCols |-> used.cols,
              usedBasis |-> used.basis, usedWin |-> used.win,
              nfilts |-> 0, blocks |-> IF nTimeSlots > 0 /\ fits THEN nTimeSlots ELSE 0,
              outcome |-> IF nTimeSlots > 0 /\ ~fits THEN "ValueError" ELSE "return"]
        /\ UNCHANGED <<pm, dftVars, stftVars, synVars, pqmfVars, frftVars, psyVars, raceVars>>

\* real_synthesis(y), y of shape (T, N): every row is projected by
\* np.dot(y[m, :].T, Cos) and added into a slice of 2N samples.
real_synthesis(T, N) ==
    LET hit == CacheHit(Cos, N)
        used == MatrixUsed(Cos, N)
        fits == used.cols = 2 * N \/ used.cols = 1
    IN  /\ Cos' = used
        /\ lastCall' =
             [op |-> "real_synthesis", N |-> N, cachedRows |-> Cos.rows, hit |-> hit,
              rebuilt |-> ~hit, usedRows |-> used.rows, usedCols |-> used.cols,
              usedBasis |-> used.basis, usedWin |-> used.win,
              nfilts |-> 0, blocks |-> IF T > 0 /\ fits THEN T ELSE 0,
              outcome |-> IF T > 0 /\ ~fits THEN "ValueError" ELSE "return"]
        /\ UNCHANGED <<pm, dftVars, stftVars, synVars, pqmfVars, frftVars, psyVars, raceVars>>

\* A direct call of the public coreModulation(win, N, type).
CallCoreModulation(winKind, lfb, N, type) ==
    LET r == coreModulation(winKind, lfb, N, type)
    IN  /\ Cos' = IF r.raised THEN Cos ELSE r.matrix
        /\ lastCall' =
             [op |-> "coreModulation", N |-> N, cachedRows |-> Cos.rows, hit |-> FALSE,
              rebuilt |-> ~r.raised, usedRows |-> r.matrix.rows, usedCols |-> r.matrix.cols,
              usedBasis |-> r.matrix.basis, usedWin |-> r.matrix.win,
              nfilts |-> 0, blocks |-> 0, outcome |-> IF r.raised THEN "raise" ELSE "return"]
        /\ UNCHANGED <<pm, dftVars, stftVars, synVars, pqmfVars, frftVars, psyVars, raceVars>>

(***************************************************************************)
(* PsychoacousticModel.__init__: the fields, then W = mX2Bark(type) and    *)
(* W_inv = bark2mX().  The matrices are kept by their shapes.              *)
(***************************************************************************)
\* mX2Bark(type): 'rasta' and 'peaq' bind W; the else branch is
\* assert('Unknown method'), which passes, and "return W" then reads the
\* unbound local W: UnboundLocalError.
mX2Bark(type) ==
    IF type \in {"rasta", "peaq"}
    THEN [raised |-> FALSE, law |-> type]
    ELSE [raised |-> TRUE, law |-> "none"]

\* The default sampling rate of PsychoacousticModel.__init__.
SampleRate == 44100

\* CB_filters: the lower and upper edges of the first critical bands, in
\* thousandths of a hertz.
CBLower == <<80000, 103445, 127023, 150762, 174694>>
CBUpper == <<103445, 127023, 150762, 174694, 198849>>

\* fft2bark_rasta: np.round(binbarks / step_barks) for the bins 0..nfft/2, with
\* binbarks = 6 * arcsinh(k * fs / nfft / 600) and
\* step_barks = 6 * arcsinh(fs / 2 / 600) / (nfilts - 1), at the default fs.
\* nfilts = 1 makes step_barks infinite and every quotient 0.
rastaBands(N, nfilts) ==
    CASE nfilts = 1 -> [k \in 1..(N \div 2 + 1) |-> 0]
      [] N = 4 /\ nfilts = 2 -> <<0, 1, 1>>
      [] N = 4 /\ nfilts = 3 -> <<0, 2, 2>>
      [] N = 4 /\ nfilts = 4 -> <<0, 3, 3>>
      [] N = 4 /\ nfilts = 5 -> <<0, 3, 4>>
      [] N = 6 /\ nfilts = 2 -> <<0, 1, 1, 1>>
      [] N = 6 /\ nfilts = 3 -> <<0, 1, 2, 2>>
      [] N = 6 /\ nfilts = 4 -> <<0, 2, 3, 3>>
      [] N = 6 /\ nfilts = 5 -> <<0, 3, 4, 4>>
      [] N = 12 /\ nfilts = 2 -> <<0, 1, 1, 1, 1, 1, 1>>
      [] N = 12 /\ nfilts = 3 -> <<0, 1, 1, 2, 2, 2, 2>>
      [] N = 12 /\ nfilts = 4 -> <<0, 2, 2, 3, 3, 3, 3>>
      [] N = 12 /\ nfilts = 5 -> <<0, 2, 3, 3, 4, 4, 4>>

\* fft2bark_rasta: if (nfilts == 0): nfilts = np.ceil(nyqbark) + 1, which is
\* ceil(6 * arcsinh(22050 / 600)) + 1 at the default fs.
AutoFilters == 27

\* fft2bark_rasta: W = zeros((nfilts, nfft)) and row i gets 1 at the bins whose
\* rounded Bark position is i.  W is kept as the set of its positive entries
\* <<band, bin>>, both counted from 0.
fft2bark_rasta(N, nfilts) ==
    {<<rastaBands(N, nfilts)[k + 1], k>> : k \in 0..(N \div 2)}

\* fft2bark_peaq: W[i, k] = max(0, (min(fu[i], (k+0.5)*df) - max(fl[i], (k-0.5)*df)) / df)
\* with df = fs / nfft, which is positive exactly when band i and the
\* interval of bin k overlap.
fft2bark_peaq(N, nfilts) ==
    {e \in (0..(nfilts - 1)) \X (0..(N \div 2)) :
        /\ CBUpper[e[1] + 1] * 2 * N > (2 * e[2] - 1) * SampleRate * 1000
        /\ (2 * e[2] + 1) * SampleRate * 1000 > CBLower[e[1] + 1] * 2 * N}

\* bark2mX: W_inv = (diag((1.0 / sum(W[:, 0:nfreqs+1], 1)) ** 0.5) . W[:, 0:nfreqs+1]).T
\* A band with no bin has row sum 0, 1.0 / 0 is inf, and inf * 0 makes its
\* whole column of W_inv NaN.  The result is kept as the set of those bands.
bark2mX(W, nfilts, nfreqs) ==
    {i \in 0..(nfilts - 1) : ~ \E k \in 0..nfreqs : <<i, k>> \in W}

\* __init__: self._maxb = 1. / self.nfilts comes before mX2Bark.  The
\* instance a call of the constructor leaves, NoModel where it raises.
Instance(N, nfilts, type) ==
    LET nfreqs == N \div 2
        W == IF type = "rasta" THEN fft2bark_rasta(N, nfilts)
                               ELSE fft2bark_peaq(N, nfilts)
    IN  IF nfilts = 0 \/ mX2Bark(type).raised
        THEN NoModel
        ELSE [built |-> TRUE, type |-> type, nfft |-> N, nfilts |-> nfilts,
              nfreqs |-> nfreqs, Wrows |-> nfilts, Wcols |-> N,
              WinvRows |-> nfreqs + 1, WinvCols |-> nfilts,
              W |-> W, nanBands |-> bark2mX(W, nfilts, nfreqs)]

ConstructorCall(N, nfilts, type) ==
    [NoCall EXCEPT !.op = "PsychoacousticModel", !.N = N,
                   !.usedBasis = type, !.nfilts = nfilts,
                   !.outcome = IF nfilts = 0 THEN "ZeroDivisionError"
                               ELSE IF mX2Bark(type).raised THEN "UnboundLocalError"
                               ELSE "return"]

NewPsychoacousticModel(N, nfilts, type) ==
    /\ pm' = Instance(N, nfilts, type)
    /\ lastCall' = ConstructorCall(N, nfilts, type)
    /\ UNCHANGED <<Cos, dftVars, stftVars, synVars, pqmfVars, frftVars, psyVars, raceVars>>

(***************************************************************************)
(* One frame through DFT and then iDFT.                                    *)
(***************************************************************************)
NoFrame ==
    [stage |-> "none", x |-> <<>>, w |-> <<>>, N |-> 0, bins |-> NoBins,
     wsz |-> 0, Nsyn |-> 0, y |-> <<>>, outcome |-> "none"]

\* a frame, a window and an FFT size handed to the pair
GivenFrame(x, w, N) == [NoFrame EXCEPT !.stage = "given", !.x = x, !.w = w, !.N = N]

CallDFT ==
    /\ frame.stage = "given"
    /\ LET r == DFT(frame.x, frame.w, frame.N)
       IN  frame' = [frame EXCEPT !.stage = "analysed", !.bins = r.bins,
                                  !.outcome = IF r.raised THEN "ValueError" ELSE "return"]
    /\ UNCHANGED <<cacheVars, stftVars, synVars, pqmfVars, frftVars, psyVars, raceVars>>

CalliDFT(wsz) ==
    /\ frame.stage = "analysed"
    /\ frame.outcome = "return"
    /\ LET r == iDFT(frame.bins, wsz)
       IN  frame' = [frame EXCEPT !.stage = "synthesised", !.wsz = wsz, !.Nsyn = r.N,
                                  !.y = r.y,
                                  !.outcome = IF r.raised THEN "ValueError" ELSE "return"]
    /\ UNCHANGED <<cacheVars, stftVars, synVars, pqmfVars, frftVars, psyVars, raceVars>>

(***************************************************************************)
(* STFT and MCSTFT.  A window array is [base, den]: the values it was      *)
(* constructed with (integers) and the integer den such that its present   *)
(* values are base[i] / sqrt(den).  "w *= 1./np.sqrt(N)" multiplies den by *)
(* N.  A row of a spectrogram is [bins, den]: the complex bins computed    *)
(* with the integer window values, to be divided by sqrt(den).             *)
(***************************************************************************)
NoSignal == [xs |-> <<>>, N |-> 0, hop |-> 0]
NoWindow == [base |-> <<>>, den |-> 1]
NoSTFT == [op |-> "none", channel |-> 0, wIn |-> NoWindow, outcome |-> "none", out |-> <<>>]

Zeros(n) == [i \in 1..n |-> 0]

\* x = np.append(np.zeros(3*hop), x); x = np.append(x, np.zeros(3*hop))
PadSignal(x, hop) == Zeros(3 * hop) \o x \o Zeros(3 * hop)

\* if np.sum(w) != 0.: w *= 1./np.sqrt(N)           (in place, on the caller's array)
NormaliseWindow(w, N) ==
    IF ISum(w.base, 1, Len(w.base)) # 0 THEN [w EXCEPT !.den = w.den * N] ELSE w

\* xmX = np.zeros((len(x)//hop, N//2 + 1)): one row
ZeroRow(N) == [bins |-> [k \in 1..HalfSpectrumSize(N) |-> CZero], den |-> 1]

\* An analysis loop that stops one frame early.
LoopContinuesStrict(pin, pend) == pin < pend

\* while pin <= pend
LoopContinues(pin, pend) == pin <= pend

RECURSIVE AnalysisLoop(_, _, _, _, _, _, _)
\* The analysis loop from the state (pin, indx, xmX): every pass takes
\* xSeg = x[pin:pin+wsz], transforms it and stores it in row indx, which is
\* an IndexError when the rows are used up.
AnalysisLoop(x, w, N, hop, pin, indx, xmX) ==
    IF ~LoopContinues(pin, Len(x) - Len(w.base))
    THEN [outcome |-> "return", rows |-> xmX]
    ELSE LET xSeg == SubSeq(x, pin + 1, pin + Len(w.base))
             X == DFT(xSeg, w.base, N)
         IN  IF X.raised THEN [outcome |-> "ValueError", rows |-> <<>>]
             ELSE IF indx >= Len(xmX) THEN [outcome |-> "IndexError", rows |-> <<>>]
             ELSE AnalysisLoop(x, w, N, hop, pin + hop, indx + 1,
                               [xmX EXCEPT ![indx + 1] = [bins |-> X.bins, den |-> w.den]])

\* STFT(x, w, N, hop): the padded signal, the window scaled in place, the
\* rows; w is the caller's array as it is left behind.
STFT(x, w, N, hop) ==
    LET xp == PadSignal(x, hop)
        wn == NormaliseWindow(w, N)
        xmX == [r \in 1..(Len(xp) \div hop) |-> ZeroRow(N)]
        res == AnalysisLoop(xp, wn, N, hop, 0, 0, xmX)
    IN  [outcome |-> res.outcome, rows |-> res.rows, w |-> wn]

RECURSIVE MCSTFTFrom(_, _, _, _, _, _)
\* MCSTFT's calls of STFT for the channels c..M, one after the other on the
\* same window array; smX[channel] = mX.T keeps each result.
MCSTFTFrom(xs, w, N, hop, c, out) ==
    IF c > Len(xs)
    THEN [outcome |-> "return", out |-> out, w |-> w, calls |-> c - 1]
    ELSE LET r == STFT(xs[c], w, N, hop)
         IN  IF r.outcome # "return"
             THEN [outcome |-> r.outcome, out |-> <<>>, w |-> r.w, calls |-> c]
             ELSE MCSTFTFrom(xs, r.w, N, hop, c + 1, Append(out, r.rows))

MCSTFT(xs, w, N, hop) == MCSTFTFrom(xs, w, N, hop, 1, <<>>)

\* The caller analyses channel c alone.
CallSTFT(c) ==
    /\ ncalls < MaxCalls
    /\ c \in 1..Len(sig.xs)
    /\ LET r == STFT(sig.xs[c], win, sig.N, sig.hop)
       IN  /\ win' = r.w
           /\ ncalls' = ncalls + 1
           /\ stft' = [op |-> "STFT", channel |-> c, wIn |-> win,
                       outcome |-> r.outcome, out |-> <<r.rows>>]
    /\ UNCHANGED <<cacheVars, dftVars, sig, synVars, pqmfVars, frftVars, psyVars, raceVars>>

\* The caller analyses all channels at once.
CallMCSTFT ==
    /\ ncalls + Len(sig.xs) <= MaxCalls
    /\ LET r == MCSTFT(sig.xs, win, sig.N, sig.hop)
       IN  /\ win' = r.w
           /\ ncalls' = ncalls + r.calls
           /\ stft' = [op |-> "MCSTFT", channel |-> 0, wIn |-> win,
                       outcome |-> r.outcome, out |-> r.out]
    /\ UNCHANGED <<cacheVars, dftVars, sig, synVars, pqmfVars, frftVars, psyVars, raceVars>>

(***************************************************************************)
(* GLA, iSTFT and istfrft.                                                 *)
(***************************************************************************)
\* scipy.signal.windows.hamming(M), times 100:
\* 100 * (0.54 - 0.46*cos(2*pi*n/(M-1))), n = 0..M-1, and [1.] for M = 1.
\* 2*cos(2*pi*n/(M-1)) is an integer for M-1 in {1, 2, 3, 4, 6}.
HammingUnit == 100
Hamming100(M) ==
    IF M = 1 THEN <<100>>
    ELSE [n1 \in 1..M |-> 54 - 23 * TwiceRe(CTimesRoot(CInt(1), M - 1, n1 - 1))[1]]

HammingWindow(M) == [base |-> Hamming100(M), den |-> HammingUnit * HammingUnit]
RectWindow(M) == [base |-> [i \in 1..M |-> 1], den |-> 1]

\* Shifts that leave out the frames that start before the window.
EnvelopeShiftsForward(redundancy) == 0..redundancy

\* for k in range(-redundancy, redundancy + 1)
EnvelopeShifts(redundancy) == (0 - redundancy)..redundancy

\* env of GLA, times 100^2 * N: env[envInd] += synwProd[winInd] over the shifts
\* k, with envInd = hop*k + winInd kept where 0 < envInd <= wsz.
Envelope(H, hop) ==
    LET wsz == Len(H)
        redundancy == wsz \div hop
    IN  [j \in 1..wsz |->
           LET at(k) == IF j - hop * k >= 1 /\ j - hop * k <= wsz
                        THEN H[j - hop * k] * H[j - hop * k] ELSE 0
               shifts == EnvelopeShifts(redundancy)
               f == [n \in 1..(2 * redundancy + 1) |->
                       IF (n - redundancy - 1) \in shifts THEN at(n - redundancy - 1) ELSE 0]
           IN  ISum(f, 1, 2 * redundancy + 1)]

\* GLA(wsz, hop, N): synw = hamming(wsz)/sqrt(N), then synw/env.  The value at
\* j is num[j] * sqrt(rad) / env[j].
GLA(wsz, hop, N) ==
    [kind |-> "window", num |-> Hamming100(wsz), env |-> Envelope(Hamming100(wsz), hop),
     rad |-> HammingUnit * HammingUnit * N]

\* rs of iSTFT: GLA(wsz, hop, (wsz - 1)*2.) with smt, np.sqrt(2. * (wsz-1))
\* without (the value sqrt(rad) at every j).
ReconstructionScale(wsz, hop, smt) ==
    IF smt THEN GLA(wsz, hop, (wsz - 1) * 2)
    ELSE [kind |-> "scalar", num |-> [j \in 1..wsz |-> 1], env |-> [j \in 1..wsz |-> 1],
          rad |-> 2 * (wsz - 1)]

\* np.delete(y, range(lo, hi)) on an array of n samples, as the indices of y
\* (0-based) that stay.  What an index outside the array, or a negative one,
\* does depends on the numpy of the build: from 1.9 to 1.18 both are left
\* out with a warning ("ignore"); before and after, a negative index counts
\* from the end and an index outside raises IndexError ("raise").
NpDelete(keep, lo, hi, build) ==
    LET n == Len(keep)
        idx == lo..(hi - 1)
        outside == {i \in idx : i < 0 - n \/ i >= n}
        gone == IF build = "ignore"
                THEN {i \in idx : i >= 0 /\ i < n}
                ELSE {i \in idx : i >= 0} \cup {i + n : i \in {j \in idx : j < 0}}
        stay == {i \in 0..(n - 1) : i \notin gone}
        RECURSIVE pick(_)
        pick(i) == IF i >= n THEN <<>>
                   ELSE IF i \in stay THEN <<keep[i + 1]>> \o pick(i + 1) ELSE pick(i + 1)
    IN  IF build = "raise" /\ outside # {}
        THEN [raised |-> TRUE, keep |-> <<>>]
        ELSE [raised |-> FALSE, keep |-> pick(0)]

\* y = np.delete(y, range(y.size-(3*hop + 1), y.size)) removes 3*hop + 1 samples
TailRemoved(hop) == 3 * hop + 1

\* y = np.delete(y, range(3*hop)); y = np.delete(y, range(y.size-(3*hop + 1), y.size))
\* on a buffer of B samples: the buffer indices (0-based) that are returned.
DePad(B, hop, build) ==
    LET first == NpDelete([i \in 1..B |-> i - 1], 0, 3 * hop, build)
    IN  IF first.raised THEN first
        ELSE NpDelete(first.keep, Len(first.keep) - TailRemoved(hop), Len(first.keep), build)

NoScale == [kind |-> "none", num |-> <<>>, env |-> <<>>, rad |-> 0]
NoSynthesis ==
    [op |-> "none", fromSTFT |-> FALSE, numFr |-> 0, N |-> 0, wsz |-> 0, hop |-> 0,
     smt |-> FALSE, build |-> "none", rs |-> NoScale, frames |-> <<>>, bufLen |-> 0, outcome |-> "none", keep |-> <<>>]

\* iSTFT(xmX, xpX, wsz, hop, smt) on the rows xmX: the scale rs, the frames
\* iDFT returns (each times 2N, to be divided by sqrt of its row's den), the
\* buffer of numFr*hop + hw1 + hw2 samples and what the de-padding leaves.
iSTFT(rows, wsz, hop, smt, build) ==
    LET numFr == Len(rows)
        B == numFr * hop + hw1Of(wsz) + hw2Of(wsz)
        rs == ReconstructionScale(wsz, hop, smt)
        ys == [k \in 1..numFr |-> iDFT(rows[k].bins, wsz)]
        dp == DePad(B, hop, build)
    IN  IF \E k \in 1..numFr : ys[k].raised
        THEN [outcome |-> "ValueError", rs |-> rs, frames |-> <<>>, bufLen |-> B, keep |-> <<>>]
        ELSE [outcome |-> IF dp.raised THEN "IndexError" ELSE "return", rs |-> rs,
              frames |-> [k \in 1..numFr |-> ys[k].y], bufLen |-> B, keep |-> dp.keep]

\* istfrft(xmX, xpX, hop, a) on numFr rows of wsz samples: the buffer of
\* numFr*hop + wsz samples and what the de-padding leaves.  The frames come
\* from ifrft and are added with unit gain; their values are not modelled.
istfrft(numFr, wsz, hop, build) ==
    LET B == numFr * hop + wsz
        dp == DePad(B, hop, build)
    IN  [outcome |-> IF dp.raised THEN "IndexError" ELSE "return", bufLen |-> B, keep |-> dp.keep]

\* The caller synthesises what the last STFT call returned, with the window
\* size and the hop of the analysis.
CalliSTFT(smt, build) ==
    /\ stft.op = "STFT"
    /\ stft.outcome = "return"
    /\ LET r == iSTFT(stft.out[1], Len(win.base), sig.hop, smt, build)
       IN  syn' = [op |-> "iSTFT", fromSTFT |-> TRUE, numFr |-> Len(stft.out[1]),
                   N |-> sig.N, wsz |-> Len(win.base), hop |-> sig.hop, smt |-> smt,
                   build |-> build, rs |-> r.rs, frames |-> r.frames, bufLen |-> r.bufLen,
                   outcome |-> r.outcome, keep |-> r.keep]
    /\ UNCHANGED <<cacheVars, dftVars, stftVars, pqmfVars, frftVars, psyVars, raceVars>>

\* A spectrogram of the caller's own, about to be synthesised: numFr all-zero
\* rows, of the bins of FFT size N for iSTFT and of wsz samples for istfrft.
GivenSpectrogram(op, numFr, N, wsz, hop, smt, build) ==
    [NoSynthesis EXCEPT !.op = op, !.numFr = numFr, !.N = N, !.wsz = wsz, !.hop = hop,
                        !.smt = smt, !.build = build, !.outcome = "given"]

CalliSTFTOn ==
    /\ syn.op = "iSTFT"
    /\ syn.outcome = "given"
    /\ LET r == iSTFT([k \in 1..syn.numFr |-> ZeroRow(syn.N)], syn.wsz, syn.hop, syn.smt,
                      syn.build)
       IN  syn' = [syn EXCEPT !.rs = r.rs, !.frames = r.frames, !.bufLen = r.bufLen,
                              !.outcome = r.outcome, !.keep = r.keep]
    /\ UNCHANGED <<cacheVars, dftVars, stftVars, pqmfVars, frftVars, psyVars, raceVars>>

\* A direct call of the public GLA(wsz, hop, N) with the arguments given.
CallGLA ==
    /\ syn.op = "GLA"
    /\ syn.outcome = "given"
    /\ syn' = [syn EXCEPT !.rs = GLA(syn.wsz, syn.hop, syn.N), !.outcome = "return"]
    /\ UNCHANGED <<cacheVars, dftVars, stftVars, pqmfVars, frftVars, psyVars, raceVars>>

Callistfrft ==
    /\ syn.op = "istfrft"
    /\ syn.outcome = "given"
    /\ LET r == istfrft(syn.numFr, syn.wsz, syn.hop, syn.build)
       IN  syn' = [syn EXCEPT !.bufLen = r.bufLen, !.outcome = r.outcome, !.keep = r.keep]
    /\ UNCHANGED <<cacheVars, dftVars, stftVars, pqmfVars, frftVars, psyVars, raceVars>>

(***************************************************************************)
(* pqmf_analysis and pqmf_synthesis.  The codec (module QMF, imported as    *)
(* qrf) is not part of the source: of its real-time state the model keeps   *)
(* the number of blocks it has filtered since its last reset.               *)
(***************************************************************************)
\* N = 1024 in pqmf_analysis and pqmf_synthesis
BlockSize == 1024

\* from QMF import qmf_realtime_class as qrf: the name qrf is bound when the
\* import succeeds and stays unbound, after a printed notice, when it fails.
FreshCodec == [present |-> TRUE, resets |-> 0, blocks |-> 0]
MissingCodec == [present |-> FALSE, resets |-> 0, blocks |-> 0]
NoPQMF == [op |-> "none", len |-> 0, slots |-> 0, events |-> <<>>, outLen |-> 0,
           dropped |-> 0, outcome |-> "none"]

\* qrf.reset_rt()
reset_rt(q) == [q EXCEPT !.resets = q.resets + 1, !.blocks = 0]

\* qrf.PQMFAnalysis.analysisqmf_realtime / qrf.PQMFSynthesis.synthesisqmf_realtime
\* on one block
realtime_block(q) == [q EXCEPT !.blocks = q.blocks + 1]

RECURSIVE RunBlocks(_, _)
RunBlocks(q, n) == IF n = 0 THEN q ELSE RunBlocks(realtime_block(q), n - 1)

\* nTimeSlots = len(x) / N
TimeSlots(len) == len \div BlockSize

\* What one call does to the codec, in order.
CodecEvents(slots) == <<"reset_rt">> \o [m \in 1..slots |-> "block"]

pqmf_analysis(len) ==
    /\ qrf.resets < MaxResets
    /\ LET nTimeSlots == TimeSlots(len)
       IN  IF ~qrf.present
           THEN /\ qrf' = qrf
                /\ pq' = [NoPQMF EXCEPT !.op = "pqmf_analysis", !.len = len,
                                        !.slots = nTimeSlots, !.outcome = "NameError"]
           ELSE /\ qrf' = RunBlocks(reset_rt(qrf), nTimeSlots)
                /\ pq' = [op |-> "pqmf_analysis", len |-> len, slots |-> nTimeSlots,
                          events |-> CodecEvents(nTimeSlots), outLen |-> nTimeSlots,
                          dropped |-> len - nTimeSlots * BlockSize, outcome |-> "return"]
    /\ UNCHANGED <<cacheVars, dftVars, stftVars, synVars, frftVars, psyVars, raceVars>>

pqmf_synthesis(rows) ==
    /\ qrf.resets < MaxResets
    /\ LET nTimeSlots == rows
       IN  IF ~qrf.present
           THEN /\ qrf' = qrf
                /\ pq' = [NoPQMF EXCEPT !.op = "pqmf_synthesis", !.len = rows,
                                        !.slots = nTimeSlots, !.outcome = "NameError"]
           ELSE /\ qrf' = RunBlocks(reset_rt(qrf), nTimeSlots)
                /\ pq' = [op |-> "pqmf_synthesis", len |-> rows, slots |-> nTimeSlots,
                          events |-> CodecEvents(nTimeSlots),
                          outLen |-> nTimeSlots * BlockSize, dropped |-> 0,
                          outcome |-> "return"]
    /\ UNCHANGED <<cacheVars, dftVars, stftVars, synVars, frftVars, psyVars, raceVars>>

(***************************************************************************)
(* frft and ifrft.  An order a is kept as the integer 4*a, so that the      *)
(* orders are the multiples of 1/4.  An array is kept with its values       *)
(* (vals[i]/sqrt(den)) where the code computes them with fft, ifft and      *)
(* flipud, and by its length alone after the chirp convolution.             *)
(***************************************************************************)
Max(a, b) == IF a >= b THEN a ELSE b
Min(a, b) == IF a <= b THEN a ELSE b

\* len(np.arange(lo, hi))
ARangeLen(lo, hi) == Max(0, hi - lo)

\* len(v[start:stop:step]) for an array v of n samples, step > 0
SliceLen(n, start, stop, step) ==
    LET lo == IF start < 0 THEN Max(0, start + n) ELSE Min(start, n)
        hi == IF stop < 0 THEN Max(0, stop + n) ELSE Min(stop, n)
    IN  IF hi <= lo THEN 0 ELSE ((hi - lo) + step - 1) \div step

\* len(fftconvolve(u, v)): an empty array when either is empty
ConvolveLen(m, n) == IF m = 0 \/ n = 0 THEN 0 ELSE m + n - 1

\* len(u * v) under broadcasting, -1 where the shapes do not match
BroadcastLen(m, n) == IF m = n THEN m ELSE IF m = 1 THEN n ELSE IF n = 1 THEN m ELSE 0 - 1

Exact(vals, den) == [kind |-> "exact", len |-> Len(vals), vals |-> vals, den |-> den]
Opaque(n) == [kind |-> "chirp", len |-> n, vals |-> <<>>, den |-> 1]

\* shft = np.fmod(np.arange(N) + np.fix(N / 2), N), at i (0-based)
shft(i, N) == (i + (N \div 2)) % N

\* np.flipud(f)
flipud(f) ==
    IF f.kind = "exact" THEN Exact([i \in 1..f.len |-> f.vals[f.len + 1 - i]], f.den) ELSE f

\* np.fft.fft on complex values
cfft(buf) ==
    LET N == Len(buf)
    IN  [k1 \in 1..N |->
           CSum([n1 \in 1..N |->
                   CTimesRoot(buf[n1], N, N - (((k1 - 1) * (n1 - 1)) % N))],
                1, N)]

\* ret[shft] = np.fft.fft(f[shft]) / sN, and the same with ifft and * sN
ShiftedTransform(f, inverse) ==
    IF f.kind # "exact" THEN f
    ELSE LET N == f.len
             g == [i \in 1..N |-> f.vals[shft(i - 1, N) + 1]]
             G == IF inverse THEN ifftTimesN(g) ELSE cfft(g)
             at(j) == CHOOSE i \in 1..N : shft(i - 1, N) + 1 = j
         IN  Exact([j \in 1..N |-> G[at(j)]], f.den * N)

\* An order that is not reduced.
OrderAsGiven(a4) == a4

\* a = np.remainder(a, 4.0)
ReducedOrder(a4) == a4 % 16

\* len(sincinterp(x)) for x of N >= 1 samples
sincinterpLen(N) ==
    LET yLen == 2 * N - 1
        xint == ConvolveLen(SliceLen(yLen, 0, 2 * N, 1), ARangeLen(0 - (2 * N - 3), 2 * N - 2))
    IN  SliceLen(xint, 2 * N - 3, 0 - 2 * N + 3, 1)

\* The length of what the chirp convolution of frft returns for N >= 1
\* samples, -1 where an elementwise product has operands that do not match.
ChirpLen(N) ==
    LET fLen == (N - 1) + sincinterpLen(N) + (N - 1)
        chrp == ARangeLen(0 - 2 * N + 2, 2 * N - 1)
        f2 == BroadcastLen(chrp, fLen)
        conv == ConvolveLen(ARangeLen(0 - (4 * N - 4), 4 * N - 3), Max(f2, 0))
        ret == SliceLen(conv, 4 * N - 4, 8 * N - 7, 1)
        ret2 == BroadcastLen(chrp, ret)
    IN  IF f2 < 0 \/ ret2 < 0 THEN 0 - 1 ELSE SliceLen(ret2, N - 1, 0 - N + 1, 2)

\* A forward pre-rotation that starts a quarter of an order late.
RotatesForwardLate(a4) == a4 > 7

\* if a > 2.0
Reflects(a4) == a4 > 8

\* if a > 1.5
RotatesForward(a4) == a4 > 6

\* if a < 0.5
RotatesBack(a4) == a4 < 2

\* The reduction of frft for an order a in [0, 4) that is none of 0, 1, 2, 3,
\* one if after the other: the order left for the chirp path, whether f was
\* reversed, and the pre-rotations applied to f, in the order applied.
Reduction(a4) ==
    LET a1 == IF Reflects(a4) THEN a4 - 8 ELSE a4
        a2 == IF RotatesForward(a1) THEN a1 - 4 ELSE a1
        a3 == IF RotatesBack(a2) THEN a2 + 4 ELSE a2
    IN  [a4 |-> a3,
         flips |-> IF Reflects(a4) THEN 1 ELSE 0,
         rots |-> (IF RotatesForward(a1) THEN <<"fft">> ELSE <<>>)
                  \o (IF RotatesBack(a2) THEN <<"ifft">> ELSE <<>>)]

NoReduction == [a4 |-> 0, flips |-> 0, rots |-> <<>>]

\* frft(f, a): the branch taken, the outcome, the array returned and, on the
\* chirp path, the reduction.
frft(f, a4) ==
    LET N == f.len
        a == ReducedOrder(a4)
        special(b, o, g) == [branch |-> b, outcome |-> o, out |-> g, red |-> NoReduction]
    IN  IF a = 0 THEN special("identity", "return", f)
        ELSE IF a = 8 THEN special("reversal", "return", flipud(f))
        ELSE IF a = 4 THEN
            IF N = 0 THEN special("fft", "ValueError", Opaque(0))
            ELSE special("fft", "return", ShiftedTransform(f, FALSE))
        ELSE IF a = 12 THEN
            IF N = 0 THEN special("ifft", "ValueError", Opaque(0))
            ELSE special("ifft", "return", ShiftedTransform(f, TRUE))
        ELSE IF N = 0 \/ ChirpLen(N) < 0
             THEN [branch |-> "chirp", outcome |-> "ValueError", out |-> Opaque(0),
                   red |-> Reduction(a)]
             ELSE [branch |-> "chirp", outcome |-> "return", out |-> Opaque(ChirpLen(N)),
                   red |-> Reduction(a)]

\* ifrft(f, a) = frft(f, -a)
ifrft(f, a4) == frft(f, 0 - a4)

NoArray == Exact(<<>>, 1)
NoTransform ==
    [stage |-> "none", f |-> NoArray, a4 |-> 0, g |-> NoArray, y |-> NoArray,
     branch |-> "none", back |-> "none", outcome |-> "none", red |-> NoReduction]

GivenArray(x, a4) ==
    [NoTransform EXCEPT !.stage = "given", !.f = Exact([i \in 1..Len(x) |-> CInt(x[i])], 1),
                        !.a4 = a4]

Callfrft ==
    /\ fr.stage = "given"
    /\ LET r == frft(fr.f, fr.a4)
       IN  fr' = [fr EXCEPT !.stage = "analysed", !.g = r.out, !.branch = r.branch,
                            !.outcome = r.outcome, !.red = r.red]
    /\ UNCHANGED <<cacheVars, dftVars, stftVars, synVars, pqmfVars, psyVars, raceVars>>

Callifrft ==
    /\ fr.stage = "analysed"
    /\ fr.outcome = "return"
    /\ LET r == ifrft(fr.g, fr.a4)
       IN  fr' = [fr EXCEPT !.stage = "synthesised", !.y = r.out, !.back = r.branch,
                            !.outcome = r.outcome]
    /\ UNCHANGED <<cacheVars, dftVars, stftVars, synVars, pqmfVars, psyVars, raceVars>>

(***************************************************************************)
(* The methods of PsychoacousticModel.  A magnitude spectrogram is a       *)
(* sequence of frames of integers.  A masking threshold is kept by what    *)
(* each of its entries is made of: whether a NaN of W_inv enters it, and   *)
(* the bins of the same frame that enter it with a positive weight.        *)
(***************************************************************************)
\* psy holds what the caller has at hand (a spectrogram, two signals or
\* three matrices), the last method called on it and what that returned;
\* bark is the Bark-domain threshold maskingThreshold had before it scaled it
\* back, for as long as maskingThreshold is the last method called.
NoMeasure == [kind |-> "none", mX |-> <<>>, xn |-> <<>>, xnhat |-> <<>>,
              Mask |-> <<>>, A |-> <<>>, B |-> <<>>,
              op |-> "none", outcome |-> "none", res |-> <<>>, bark |-> <<>>]

\* The instance fields a method assigns to; the mutant has maskingThreshold
\* keep its Bark-scaled copy in self.W.
FieldsAssignedWithMatrix(op) == IF op = "maskingThreshold" THEN {"W"} ELSE {}

\* forward, backward, OutMidCorrection, MOEar, maskingThreshold and NMREval
\* hold no "self.<field> = ..." and no in-place operation on a field: they
\* read self.W, self.W_inv, self.nfreqs, self.nfft, self._maxb, self._fa,
\* self._fb, self._fbb, self._alpha, self._fd and bind locals.
FieldsAssigned(op) == {}

\* The instance as a method leaves it.
InstanceAfter(p, op) ==
    IF FieldsAssigned(op) = {} THEN p
    ELSE [f \in DOMAIN p |-> IF f \in FieldsAssigned(op) THEN {} ELSE p[f]]

\* nyq of maskingThreshold: the number of columns of W it slices
ColumnsUsed(p, cols) == IF cols % 2 = 0 THEN p.nfreqs ELSE p.nfreqs + 1

\* np.dot(np.abs(mX), self.W[:, :used].T): band i+1 is made of the bins k that
\* W gives a positive weight in row i
BarkScaling(p, used) ==
    [i \in 1..p.nfilts |-> {k \in 0..(used - 1) : <<i - 1, k>> \in p.W}]

\* mT[n] sums (mX[m] * _fa * _fb ** ((n-m)*fc)) ** _alpha over m < n and
\* (mX[m] * _fa * _fbb ** ((m-n)*fc)) ** _alpha over m > n, then mT[n] ** _fd:
\* positive factors and positive exponents over every band but n itself.
Spreading(B) ==
    [n \in 1..Len(B) |-> UNION {B[m] : m \in (1..Len(B)) \ {n}}]

\* Every band, n itself among them.
MaskerBandsWithOwn(n, Numsubbands) == [i \in 1..Numsubbands |-> i]

\* for m in range(0, n) and then for m in range(n+1, Numsubbands), bands
\* counted from 1.
MaskerBands(n, Numsubbands) ==
    [i \in 1..(Numsubbands - 1) |-> IF i < n THEN i ELSE i + 1]

\* The terms added to mT[n] in the frame frameindx: the band whose Bark-scaled
\* magnitude is spread, the slope (_fb below n, _fbb above n) and the number
\* of bands between, which times fc is the exponent of the slope.
MaskingTerms(frameindx, n, Numsubbands) ==
    LET bands == MaskerBands(n, Numsubbands)
    IN  [i \in 1..Len(bands) |->
           [frame |-> frameindx, band |-> bands[i],
            slope |-> IF bands[i] < n THEN "fb" ELSE "fbb",
            steps |-> IF bands[i] < n THEN n - bands[i] ELSE bands[i] - n]]

\* The Bark-scaled mX and the mT made of it, frame by frame.  W has no
\* negative entry and np.abs(mX) none either, so that a band of a frame is
\* zero exactly where every bin W gives it a weight is zero; _fa, _fb, _fbb,
\* _alpha and _fd are positive, so that mT[n] is zero exactly where every
\* magnitude among its terms is zero.
BarkThreshold(p, mX) ==
    LET B == BarkScaling(p, ColumnsUsed(p, Len(mX[1])))
        energy(t) == {m \in 1..p.nfilts : \E k \in B[m] : mX[t][k + 1] # 0}
    IN  [t \in 1..Len(mX) |->
           [energy |-> energy(t),
            mT |-> [n \in 1..p.nfilts |->
                      LET terms == MaskingTerms(t, n, p.nfilts)
                      IN  [terms |-> terms,
                           zero |-> \A i \in 1..Len(terms) :
                                       terms[i].band \notin energy(terms[i].frame)]]]]

\* maskingThreshold(mX) for mX of shape (frames, cols).  Both np.dot raise
\* ValueError where the shapes do not meet: the first when cols is not the
\* number of columns sliced from W, the last when W_inv[:, :nfreqs] has fewer
\* columns than there are bands.  Every entry of a frame sums over all the
\* bands, so that a NaN column of W_inv makes every entry NaN.
maskingThreshold(p, cols) ==
    LET used == ColumnsUsed(p, cols)
        mT == Spreading(BarkScaling(p, used))
        bandsKept == Min(p.nfilts, p.nfreqs)
    IN  IF cols # used \/ bandsKept # p.nfilts
        THEN [outcome |-> "ValueError", out |-> <<>>]
        ELSE [outcome |-> "return",
              out |-> [b \in 1..used |->
                         [nan |-> p.nanBands # {},
                          deps |-> UNION {mT[i] : i \in {j \in 1..p.nfilts :
                                                           <<j - 1, b - 1>> \in p.W}}]]]

\* forward(spc): np.dot(self.W[:, 0:nfreqs], spc) for spc of shape (rows, T)
forward(p, rows, T) ==
    IF rows = p.nfreqs
    THEN [outcome |-> "return", shape |-> <<p.nfilts, T>>, nan |-> FALSE]
    ELSE [outcome |-> "ValueError", shape |-> <<>>, nan |-> FALSE]

\* backward(Brk_spc): np.dot(self.W_inv, Brk_spc) for Brk_spc of shape (rows, T)
backward(p, rows, T) ==
    IF rows = p.nfilts
    THEN [outcome |-> "return", shape |-> <<p.nfreqs + 1, T>>,
          nan |-> p.nanBands # {} /\ T > 0]
    ELSE [outcome |-> "ValueError", shape |-> <<>>, nan |-> FALSE]

MaxSpecFrames == 2
Magnitudes == 0..2

\* The spectrograms given to maskingThreshold: a flat one with one bin set.
Spectrograms(F, cols) ==
    {[t \in 1..F |-> [k \in 1..cols |-> IF t = at[1] /\ k = at[2] THEN v ELSE b]] :
        b \in {0, 1}, v \in Magnitudes, at \in (1..F) \X (1..cols)}

CallmaskingThreshold ==
    /\ pm.built
    /\ psy.kind = "spectrogram"
    /\ LET r == maskingThreshold(pm, Len(psy.mX[1]))
       IN  psy' = [psy EXCEPT !.op = "maskingThreshold", !.outcome = r.outcome,
                              !.res = r.out,
                              !.bark = IF r.outcome = "return"
                                       THEN BarkThreshold(pm, psy.mX) ELSE <<>>]
    /\ pm' = InstanceAfter(pm, "maskingThreshold")
    /\ UNCHANGED <<Cos, lastCall, dftVars, stftVars, synVars, pqmfVars, frftVars, raceVars>>

\* forward(mX.T)
Callforward ==
    /\ pm.built
    /\ psy.kind = "spectrogram"
    /\ LET r == forward(pm, Len(psy.mX[1]), Len(psy.mX))
       IN  psy' = [psy EXCEPT !.op = "forward", !.bark = <<>>, !.outcome = r.outcome, !.res = r]
    /\ pm' = InstanceAfter(pm, "forward")
    /\ UNCHANGED <<Cos, lastCall, dftVars, stftVars, synVars, pqmfVars, frftVars, raceVars>>

\* backward on a Bark spectrogram of the given number of bands
Callbackward(rows) ==
    /\ pm.built
    /\ psy.kind = "spectrogram"
    /\ LET r == backward(pm, rows, Len(psy.mX))
       IN  psy' = [psy EXCEPT !.op = "backward", !.bark = <<>>, !.outcome = r.outcome, !.res = r]
    /\ pm' = InstanceAfter(pm, "backward")
    /\ UNCHANGED <<Cos, lastCall, dftVars, stftVars, synVars, pqmfVars, frftVars, raceVars>>

CorrectionTypes == {"ELC", "MAF", "MAP", "other"}

\* OutMidCorrection(correctionType, firOrd, fs): the lookup table (ELC for a
\* type it does not know), and the three arrays over np.arange(0, firOrd).
OutMidCorrection(correctionType, firOrd) ==
    [outcome |-> "return",
     table |-> IF correctionType \in {"ELC", "MAF", "MAP"} THEN correctionType ELSE "ELC",
     len |-> firOrd]

\* MOEar(correctionType): firOrd = self.nfft; Cr[self.nfft - 1] = 0. writes the
\* array OutMidCorrection returned; LTq[:self.nfft/2 + 1] is returned.
MOEar(p, correctionType) ==
    LET c == OutMidCorrection(correctionType, p.nfft)
    IN  [outcome |-> c.outcome, table |-> c.table, len |-> p.nfft \div 2 + 1]

CallOutMidCorrection(correctionType, firOrd) ==
    /\ pm.built
    /\ LET r == OutMidCorrection(correctionType, firOrd)
       IN  psy' = [psy EXCEPT !.op = "OutMidCorrection", !.bark = <<>>, !.outcome = r.outcome,
                              !.res = r]
    /\ pm' = InstanceAfter(pm, "OutMidCorrection")
    /\ UNCHANGED <<Cos, lastCall, dftVars, stftVars, synVars, pqmfVars, frftVars, raceVars>>

CallMOEar(correctionType) ==
    /\ pm.built
    /\ LET r == MOEar(pm, correctionType)
       IN  psy' = [psy EXCEPT !.op = "MOEar", !.bark = <<>>, !.outcome = r.outcome, !.res = r]
    /\ pm' = InstanceAfter(pm, "MOEar")
    /\ UNCHANGED <<Cos, lastCall, dftVars, stftVars, synVars, pqmfVars, frftVars, raceVars>>

\* hanning(M) times 4: 4 * (0.5 - 0.5 * cos(2*pi*n / (M-1))) = 2 - 2 * cos(...)
HanningUnit == 4
Hanning4(M) ==
    IF M = 1 THEN <<HanningUnit>>
    ELSE [n1 \in 1..M |-> 2 - TwiceRe(CTimesRoot(CInt(1), M - 1, n1 - 1))[1]]

HanningWindow(M) == [base |-> Hanning4(M), den |-> HanningUnit * HanningUnit]

\* mX[4:-4, :]
RetainedFrames(rows) == SubSeq(rows, 5, Len(rows) - 4)

\* |u|^2 / d = |v|^2 / e: two bins of equal magnitude
SameMagnitude(u, d, v, e) == CScale(e, CMul(u, CConj(u))) = CScale(d, CMul(v, CConj(v)))

\* Err[t] = np.abs(mX[t] - mXhat[t]) ** 2. is zero in every bin
ZeroError(r1, r2) ==
    \A k \in 1..Len(r1.bins) : SameMagnitude(r1.bins[k], r1.den, r2.bins[k], r2.den)

\* NMREval(xn, xnhat): two STFT calls, each on a window hanning(nfft//2 + 1)
\* of its own, with FFT size nfft and hop nfft//4; four frames dropped at each
\* end; Err; mT = maskingThreshold(mX); imT = (1./(mT + 1e-12)) ** 2.;
\* NMR = 10 * log10(mean(mean(imT * Err, axis=-1) + 1e-12)).  The value is
\* "floor" for 10 * log10(1e-12), "above" for a larger finite value and "nan":
\* the mean of no frame, or of frames holding a NaN.
NMREval(p, xn, xnhat) ==
    LET N == p.nfft
        hop == N \div 4
        a == STFT(xn, HanningWindow(N \div 2 + 1), N, hop)
        b == STFT(xnhat, HanningWindow(N \div 2 + 1), N, hop)
        failed(o) == [outcome |-> o, value |-> "none", frames |-> 0,
                      dropped |-> <<0, 0>>, zeroErr |-> FALSE, nanT |-> FALSE,
                      wins |-> <<a.w, b.w>>]
    IN  IF a.outcome # "return" THEN failed(a.outcome)
        ELSE IF b.outcome # "return" THEN failed(b.outcome)
        ELSE LET mX == RetainedFrames(a.rows)
                 mXhat == RetainedFrames(b.rows)
                 frames == BroadcastLen(Len(mX), Len(mXhat))
                 mT == maskingThreshold(p, N \div 2 + 1)
                 row(s, t) == IF Len(s) = 1 THEN s[1] ELSE s[t]
                 zeroErr == \A t \in 1..frames : ZeroError(row(mX, t), row(mXhat, t))
                 nanT == Len(mX) > 0 /\ \E e \in 1..Len(mT.out) : mT.out[e].nan
             IN  IF frames < 0 THEN failed("ValueError")
                 ELSE IF mT.outcome # "return" THEN failed(mT.outcome)
                 ELSE [outcome |-> "return",
                       value |-> IF frames = 0 \/ nanT THEN "nan"
                                 ELSE IF zeroErr THEN "floor" ELSE "above",
                       frames |-> frames,
                       dropped |-> <<Len(a.rows) - Len(mX), Len(b.rows) - Len(mXhat)>>,
                       zeroErr |-> zeroErr, nanT |-> nanT,
                       wins |-> <<a.w, b.w>>]

PsySignals ==
    {<<>>, <<1, 1>>, <<1, 0, 1>>, <<0, 1, 1>>,
     <<1, 1, 1, 1, 1, 1, 1, 1, 1>>, <<0, 1, 1, 1, 1, 1, 1, 1, 1>>}

CallNMREval ==
    /\ pm.built
    /\ psy.kind = "signals"
    /\ LET r == NMREval(pm, psy.xn, psy.xnhat)
       IN  psy' = [psy EXCEPT !.op = "NMREval", !.bark = <<>>, !.outcome = r.outcome, !.res = r]
    /\ pm' = InstanceAfter(pm, "NMREval")
    /\ UNCHANGED <<Cos, lastCall, dftVars, stftVars, synVars, pqmfVars, frftVars, raceVars>>

(***************************************************************************)
(* WDODisjointness.  eps = np.finfo(np.float32).tiny is positive; a        *)
(* denominator "s + eps" is kept as [whole |-> s, eps |-> 1], s an integer *)
(* computed from integer matrices (sequences of rows).                     *)
(***************************************************************************)
PlusEps(s) == [whole |-> s, eps |-> 1]
Exactly(s) == [whole |-> s, eps |-> 0]

Abs(v) == IF v < 0 THEN 0 - v ELSE v

\* np.sum(A ** 2.) and np.sum(np.abs(A)) of a matrix, np.sum of a vector
SumSquares(A) ==
    ISum([t \in 1..Len(A) |-> ISum([k \in 1..Len(A[t]) |-> A[t][k] * A[t][k]], 1, Len(A[t]))],
         1, Len(A))
SumAbs(v) == ISum([k \in 1..Len(v) |-> Abs(v[k])], 1, Len(v))

\* Mask * A, element by element
Masked(Mask, A) == [t \in 1..Len(A) |-> [k \in 1..Len(A[t]) |-> Mask[t][k] * A[t][k]]]

\* PSR: num = sqrt(sum((Mask * TrueTarget) ** 2.)) ** 2. + eps,
\* denom = sqrt(sum(TrueTarget ** 2.)) ** 2. + eps
PSR(Mask, TrueTarget) ==
    [num |-> PlusEps(SumSquares(Masked(Mask, TrueTarget))),
     denoms |-> <<PlusEps(SumSquares(TrueTarget))>>]

\* SIR: the same num over denom = sqrt(sum((Mask * InterferingSources) ** 2.)) ** 2. + eps
SIR(Mask, TrueTarget, InterferingSources) ==
    [num |-> PlusEps(SumSquares(Masked(Mask, TrueTarget))),
     denoms |-> <<PlusEps(SumSquares(Masked(Mask, InterferingSources)))>>]

\* l1l2_sparsity_measure: every (mX + eps) is divided by sqrt(sum(mX ** 2.)) + eps,
\* whose first term is zero exactly when the sum of squares is
l1l2_sparsity_measure(mX) ==
    [num |-> PlusEps(0), denoms |-> <<PlusEps(SumSquares(mX))>>]

\* gini_index, frame by frame: l1norm = sum(sort(abs(vector))) + eps; a frame
\* with l1norm == 0 or l1norm <= eps gets 0 without a division, any other
\* divides by l1norm and by len(sortedVector).
gini_index(mX) ==
    [num |-> PlusEps(0),
     denoms |-> [t \in 1..Len(mX) |->
                   IF SumAbs(mX[t]) = 0 THEN <<>>
                   ELSE <<PlusEps(SumAbs(mX[t])), Exactly(Len(mX[t]))>>]]

MaskValues == {0, 1}
TFValues == {-1, 0, 1}
TFShapes == {<<1, 2>>, <<2, 1>>}
Matrices(shape, values) == [1..shape[1] -> [1..shape[2] -> values]]

CallPSR ==
    /\ psy.kind = "matrices"
    /\ LET r == PSR(psy.Mask, psy.A)
       IN  psy' = [psy EXCEPT !.op = "PSR", !.bark = <<>>, !.outcome = "return", !.res = r.denoms]
    /\ UNCHANGED <<cacheVars, dftVars, stftVars, synVars, pqmfVars, frftVars, raceVars>>

CallSIR ==
    /\ psy.kind = "matrices"
    /\ LET r == SIR(psy.Mask, psy.A, psy.B)
       IN  psy' = [psy EXCEPT !.op = "SIR", !.bark = <<>>, !.outcome = "return", !.res = r.denoms]
    /\ UNCHANGED <<cacheVars, dftVars, stftVars, synVars, pqmfVars, frftVars, raceVars>>

Calll1l2_sparsity_measure ==
    /\ psy.kind = "matrices"
    /\ LET r == l1l2_sparsity_measure(psy.A)
       IN  psy' = [psy EXCEPT !.op = "l1l2_sparsity_measure", !.bark = <<>>, !.outcome = "return",
                              !.res = r.denoms]
    /\ UNCHANGED <<cacheVars, dftVars, stftVars, synVars, pqmfVars, frftVars, raceVars>>

\* the denominators of all frames, one after the other
RECURSIVE Flatten(_, _)
Flatten(ss, t) == IF t > Len(ss) THEN <<>> ELSE ss[t] \o Flatten(ss, t + 1)

Callgini_index ==
    /\ psy.kind = "matrices"
    /\ LET r == gini_index(psy.A)
       IN  psy' = [psy EXCEPT !.op = "gini_index", !.bark = <<>>, !.outcome = "return",
                              !.res = Flatten(r.denoms, 1)]
    /\ UNCHANGED <<cacheVars, dftVars, stftVars, synVars, pqmfVars, frftVars, raceVars>>

(***************************************************************************)
(* Two callers of real_analysis running at the same time on the module     *)
(* global Cos.  A call is taken in the steps between which the other       *)
(* caller can run: the cache test, coreModulation's assignment of a zero   *)
(* matrix to the global, its fill loop (which writes through the global    *)
(* name), and one np.dot(x[m*N : m*N + lfb], Cos.T) for every block, each   *)
(* reading the global as it is by then.  "stored" is the row count of the  *)
(* matrix the caller last assigned to the global, 0 for none.              *)
(***************************************************************************)
MaxRaceCalls == 2
RaceBlocks == {1, 2}

IdleCaller == [pc |-> "idle", N |-> 0, T |-> 0, m |-> 0, hit |-> FALSE,
               usedRows |-> 0, outcome |-> "none", stored |-> 0, calls |-> 0]
NoCallers == <<IdleCaller, IdleCaller>>
Callers == {1, 2}

\* real_analysis(x, N) is entered, with nTimeSlots = T
RaceEnter(i, N, T) ==
    /\ thr[i].pc \in {"idle", "done"}
    /\ thr[i].calls < MaxRaceCalls
    /\ thr' = [thr EXCEPT ![i] = [@ EXCEPT !.pc = "test", !.N = N, !.T = T, !.m = 0,
                                             !.hit = FALSE, !.usedRows = 0,
                                             !.outcome = "none",
                                             !.calls = @ + 1]]
    /\ UNCHANGED <<cacheVars, dftVars, stftVars, synVars, pqmfVars, frftVars, psyVars>>

\* if 'Cos' in glvars and ((glvars['Cos'].T).shape[1] == N)
RaceTest(i) ==
    /\ thr[i].pc = "test"
    /\ thr' = [thr EXCEPT ![i] = [@ EXCEPT !.hit = CacheHit(Cos, thr[i].N),
                                             !.pc = IF CacheHit(Cos, thr[i].N)
                                                    THEN "project" ELSE "allocate"]]
    /\ UNCHANGED <<cacheVars, dftVars, stftVars, synVars, pqmfVars, frftVars, psyVars>>

\* coreModulation: Cos = np.zeros((N, lfb)) on the global
RaceAllocate(i) ==
    /\ thr[i].pc = "allocate"
    /\ Cos' = [defined |-> TRUE, rows |-> thr[i].N, cols |-> 2 * thr[i].N,
               basis |-> "zeros", win |-> "none"]
    /\ thr' = [thr EXCEPT ![i] = [@ EXCEPT !.pc = "fill", !.stored = thr[i].N]]
    /\ UNCHANGED <<lastCall, pm, dftVars, stftVars, synVars, pqmfVars, frftVars, psyVars>>

\* coreModulation: Cos[k, n] = ... for k < N, n < lfb, on whatever the global
\* holds by now: an IndexError when that matrix is smaller, a corner of it
\* overwritten when it is larger.
RaceFill(i) ==
    /\ thr[i].pc = "fill"
    /\ LET N == thr[i].N
       IN  IF Cos.rows < N
           THEN /\ thr' = [thr EXCEPT ![i] = [@ EXCEPT !.pc = "done",
                                                    !.outcome = "IndexError"]]
                /\ Cos' = Cos
           ELSE /\ thr' = [thr EXCEPT ![i] = [@ EXCEPT !.pc = "project"]]
                /\ Cos' = IF Cos.rows = N
                          THEN coreModulation("cosine", 2 * N, N, "MDCT").matrix
                          ELSE [Cos EXCEPT !.basis = "mixed"]
    /\ UNCHANGED <<lastCall, pm, dftVars, stftVars, synVars, pqmfVars, frftVars, psyVars>>

\* ycos[m, :] = np.dot(x[m * N: m * N + lfb], Cos.T): a ValueError when the
\* global has other than lfb = 2N columns
RaceProject(i) ==
    /\ thr[i].pc = "project"
    /\ thr' = [thr EXCEPT ![i] =
                 IF thr[i].m >= thr[i].T
                 THEN [@ EXCEPT !.pc = "done", !.outcome = "return"]
                 ELSE IF Cos.cols # 2 * thr[i].N
                 THEN [@ EXCEPT !.pc = "done", !.usedRows = Cos.rows,
                                !.outcome = "ValueError"]
                 ELSE [@ EXCEPT !.m = @ + 1, !.usedRows = Cos.rows]]
    /\ UNCHANGED <<cacheVars, dftVars, stftVars, synVars, pqmfVars, frftVars, psyVars>>

Init ==
    /\ Cos = NoCos
    /\ lastCall = NoCall
    /\ pm = NoModel
    /\ frame = NoFrame
    /\ sig = NoSignal
    /\ win = NoWindow
    /\ ncalls = 0
    /\ stft = NoSTFT
    /\ syn = NoSynthesis
    /\ qrf = FreshCodec
    /\ pq = NoPQMF
    /\ fr = NoTransform
    /\ psy = NoMeasure
    /\ thr = NoCallers

vars == <<Cos, lastCall, pm, frame, sig, win, ncalls, stft, syn, qrf, pq, fr, psy, thr>>

Next ==
    \/ \E L \in SignalLens, N \in Subbands : real_analysis(L, N)
    \/ \E T \in 0..MaxBlocks, N \in Subbands : real_synthesis(T, N)
    \/ \E k \in WindowKinds, lfb \in WindowLens, N \in Subbands, t \in BasisTypes :
          CallCoreModulation(k, lfb, N, t)
    \/ \E N \in PsyFFTSizes, nf \in FilterCounts, t \in BarkTypes :
          NewPsychoacousticModel(N, nf, t)

Spec == Init /\ [][Next]_vars

InitDFT ==
    /\ Cos = NoCos
    /\ lastCall = NoCall
    /\ pm = NoModel
    /\ \E wsz \in FrameLens, N \in FFTSizes :
          \E x \in [1..wsz -> SampleVals], w \in [1..wsz -> WindowVals] :
             frame = GivenFrame(x, w, N)
    /\ sig = NoSignal
    /\ win = NoWindow
    /\ ncalls = 0
    /\ stft = NoSTFT
    /\ syn = NoSynthesis
    /\ qrf = FreshCodec
    /\ pq = NoPQMF
    /\ fr = NoTransform
    /\ psy = NoMeasure
    /\ thr = NoCallers

NextDFT ==
    \/ CallDFT
    \/ \E wsz \in FrameLens : CalliDFT(wsz)

SpecDFT == InitDFT /\ [][NextDFT]_vars

\* the signals of M channels and L samples each
Signals(M, L) == [1..M -> [1..L -> STFTSampleVals]]

InitSTFT ==
    /\ Cos = NoCos
    /\ lastCall = NoCall
    /\ pm = NoModel
    /\ frame = NoFrame
    /\ \E M \in ChannelCounts, L \in 0..MaxLen, N \in STFTSizes, hop \in Hops :
          \E xs \in Signals(M, L) : sig = [xs |-> xs, N |-> N, hop |-> hop]
    /\ \E b \in Windows : win = [base |-> b, den |-> 1]
    /\ ncalls = 0
    /\ stft = NoSTFT
    /\ syn = NoSynthesis
    /\ qrf = FreshCodec
    /\ pq = NoPQMF
    /\ fr = NoTransform
    /\ psy = NoMeasure
    /\ thr = NoCallers

NextSTFT ==
    \/ \E c \in ChannelCounts : CallSTFT(c)
    \/ CallMCSTFT

SpecSTFT == InitSTFT /\ [][NextSTFT]_vars

\* STFT followed by iSTFT, on the windows of the round trip
InitOLA ==
    /\ Cos = NoCos
    /\ lastCall = NoCall
    /\ pm = NoModel
    /\ frame = NoFrame
    /\ \E x \in OLASignals, N \in OLASizes, hop \in Hops :
          sig = [xs |-> <<x>>, N |-> N, hop |-> hop]
    /\ \E wsz \in OLAFrameLens : win \in {HammingWindow(wsz), RectWindow(wsz)}
    /\ ncalls = 0
    /\ stft = NoSTFT
    /\ syn = NoSynthesis
    /\ qrf = FreshCodec
    /\ pq = NoPQMF
    /\ fr = NoTransform
    /\ psy = NoMeasure
    /\ thr = NoCallers

NextOLA ==
    \/ CallSTFT(1)
    \/ \E smt \in BOOLEAN, build \in Builds : CalliSTFT(smt, build)

SpecOLA == InitOLA /\ [][NextOLA]_vars

\* iSTFT and istfrft on spectrograms of any shape
InitDePad ==
    /\ Cos = NoCos
    /\ lastCall = NoCall
    /\ pm = NoModel
    /\ frame = NoFrame
    /\ sig = NoSignal
    /\ win = NoWindow
    /\ ncalls = 0
    /\ stft = NoSTFT
    /\ \E numFr \in 0..MaxFrames, wsz \in 1..MaxWsz, hop \in Hops, build \in Builds :
          \/ \E N \in OLASizes, smt \in BOOLEAN :
                /\ smt => wsz >= 2
                /\ syn = GivenSpectrogram("iSTFT", numFr, N, wsz, hop, smt, build)
          \/ syn = GivenSpectrogram("istfrft", numFr, 0, wsz, hop, FALSE, build)
    /\ qrf = FreshCodec
    /\ pq = NoPQMF
    /\ fr = NoTransform
    /\ psy = NoMeasure
    /\ thr = NoCallers

NextDePad ==
    \/ CalliSTFTOn
    \/ Callistfrft

SpecDePad == InitDePad /\ [][NextDePad]_vars

(***************************************************************************)
(* GLA on its own: the window sizes are those whose Hamming window is kept *)
(* exactly, the hops go one beyond the window size.                        *)
(***************************************************************************)
GLASizes == {1, 2, 3, 4, 5, 7}

InitGLA ==
    /\ Cos = NoCos
    /\ lastCall = NoCall
    /\ pm = NoModel
    /\ frame = NoFrame
    /\ sig = NoSignal
    /\ win = NoWindow
    /\ ncalls = 0
    /\ stft = NoSTFT
    /\ \E wsz \in GLASizes, N \in OLASizes :
          \E hop \in 1..(wsz + 1) :
             syn = GivenSpectrogram("GLA", 0, N, wsz, hop, TRUE, "none")
    /\ qrf = FreshCodec
    /\ pq = NoPQMF
    /\ fr = NoTransform
    /\ psy = NoMeasure
    /\ thr = NoCallers

NextGLA == CallGLA

SpecGLA == InitGLA /\ [][NextGLA]_vars

\* pqmf_analysis and pqmf_synthesis on signals around the block boundaries
NextPQMF ==
    \/ \E k \in 0..MaxSlots, r \in Remainders : pqmf_analysis(k * BlockSize + r)
    \/ \E rows \in 0..MaxSlots : pqmf_synthesis(rows)

InitPQMF ==
    /\ Cos = NoCos
    /\ lastCall = NoCall
    /\ pm = NoModel
    /\ frame = NoFrame
    /\ sig = NoSignal
    /\ win = NoWindow
    /\ ncalls = 0
    /\ stft = NoSTFT
    /\ syn = NoSynthesis
    /\ qrf \in {FreshCodec, MissingCodec}
    /\ pq = NoPQMF
    /\ fr = NoTransform
    /\ psy = NoMeasure
    /\ thr = NoCallers

SpecPQMF == InitPQMF /\ [][NextPQMF]_vars

\* frft followed by ifrft with the same order
InitFrFT ==
    /\ Cos = NoCos
    /\ lastCall = NoCall
    /\ pm = NoModel
    /\ frame = NoFrame
    /\ sig = NoSignal
    /\ win = NoWindow
    /\ ncalls = 0
    /\ stft = NoSTFT
    /\ syn = NoSynthesis
    /\ qrf = FreshCodec
    /\ pq = NoPQMF
    /\ psy = NoMeasure
    /\ thr = NoCallers
    /\ \E L \in 0..MaxArray, a4 \in Orders :
          \E xs \in Signals(1, L) : fr = GivenArray(xs[1], a4)

NextFrFT ==
    \/ Callfrft
    \/ Callifrft

SpecFrFT == InitFrFT /\ [][NextFrFT]_vars

(***************************************************************************)
(* An instance of PsychoacousticModel and the calls of its methods, and    *)
(* the metrics of WDODisjointness.                                         *)
(***************************************************************************)
\* The data a caller of the instance has: a spectrogram of nfreqs or
\* nfreqs + 1 columns, or two signals.
PsyData(nfreqs) ==
    {[NoMeasure EXCEPT !.kind = "spectrogram", !.mX = mX] :
        mX \in UNION {Spectrograms(F, cols) :
                        F \in 1..MaxSpecFrames, cols \in nfreqs..(nfreqs + 1)}}
    \cup {[NoMeasure EXCEPT !.kind = "signals", !.xn = xn, !.xnhat = xnhat] :
            xn \in PsySignals, xnhat \in PsySignals}

\* The data a caller of the static metrics has: a mask and two
\* time-frequency matrices of one shape.
WDOData ==
    UNION {{[NoMeasure EXCEPT !.kind = "matrices", !.Mask = Mask, !.A = A, !.B = B] :
              Mask \in Matrices(sh, MaskValues), A \in Matrices(sh, TFValues),
              B \in Matrices(sh, TFValues)} : sh \in TFShapes}

\* Either an instance as the constructor leaves it and data for its
\* methods, or data for the metrics.
InitPsy ==
    /\ Cos = NoCos
    /\ frame = NoFrame
    /\ sig = NoSignal
    /\ win = NoWindow
    /\ ncalls = 0
    /\ stft = NoSTFT
    /\ syn = NoSynthesis
    /\ qrf = FreshCodec
    /\ pq = NoPQMF
    /\ fr = NoTransform
    /\ thr = NoCallers
    /\ \/ \E N \in PsyFFTSizes, nf \in FilterCounts, t \in BarkTypes :
             /\ pm = Instance(N, nf, t)
             /\ lastCall = ConstructorCall(N, nf, t)
             /\ psy \in PsyData(N \div 2)
       \/ /\ pm = NoModel
          /\ lastCall = NoCall
          /\ psy \in WDOData

NextPsy ==
    \/ CallmaskingThreshold
    \/ Callforward
    \/ \E rows \in {pm.nfilts, pm.nfilts + 1} : Callbackward(rows)
    \/ \E c \in CorrectionTypes, firOrd \in PsyFFTSizes : CallOutMidCorrection(c, firOrd)
    \/ \E c \in CorrectionTypes : CallMOEar(c)
    \/ CallNMREval
    \/ CallPSR
    \/ CallSIR
    \/ Calll1l2_sparsity_measure
    \/ Callgini_index

SpecPsy == InitPsy /\ [][NextPsy]_vars

(***************************************************************************)
(* maskingThreshold on the magnitudes of an STFT of the instance's FFT     *)
(* size: N/2 + 1 bins a frame, an odd number for the sizes 4 and 12 and an *)
(* even one for the size 6.                                                *)
(***************************************************************************)
EvenFFTSizes == PsyFFTSizes \cup {6}

InitBins ==
    /\ Cos = NoCos
    /\ frame = NoFrame
    /\ sig = NoSignal
    /\ win = NoWindow
    /\ ncalls = 0
    /\ stft = NoSTFT
    /\ syn = NoSynthesis
    /\ qrf = FreshCodec
    /\ pq = NoPQMF
    /\ fr = NoTransform
    /\ thr = NoCallers
    /\ \E N \in EvenFFTSizes, nf \in 2..MaxFilts, t \in BarkTypes :
          /\ pm = Instance(N, nf, t)
          /\ lastCall = ConstructorCall(N, nf, t)
          /\ \E F \in 1..MaxSpecFrames :
                \E mX \in Spectrograms(F, N \div 2 + 1) :
                   psy = [NoMeasure EXCEPT !.kind = "spectrogram", !.mX = mX]

NextBins == CallmaskingThreshold

SpecBins == InitBins /\ [][NextBins]_vars

(***************************************************************************)
(* Two callers of real_analysis at the same time.                          *)
(***************************************************************************)
NextRace ==
    \E i \in Callers :
       \/ \E N \in Subbands, T \in RaceBlocks : RaceEnter(i, N, T)
       \/ RaceTest(i)
       \/ RaceAllocate(i)
       \/ RaceFill(i)
       \/ RaceProject(i)

SpecRace == Init /\ [][NextRace]_vars

(***************************************************************************)
(* A caller with one signal and one subband count, and the cosine          *)
(* transform family called on them.                                        *)
(***************************************************************************)
InitMDCT ==
    /\ Cos = NoCos
    /\ lastCall = NoCall
    /\ pm = NoModel
    /\ frame = NoFrame
    /\ win = NoWindow
    /\ ncalls = 0
    /\ stft = NoSTFT
    /\ syn = NoSynthesis
    /\ qrf = FreshCodec
    /\ pq = NoPQMF
    /\ fr = NoTransform
    /\ psy = NoMeasure
    /\ thr = NoCallers
    /\ \E L \in SignalLens, N \in Subbands : sig = [xs |-> <<Zeros(L)>>, N |-> N, hop |-> N]

NextMDCT ==
    \/ real_analysis(Len(sig.xs[1]), sig.N)
    \/ \E T \in 0..MaxBlocks : real_synthesis(T, sig.N)
    \/ \E k \in WindowKinds, lfb \in WindowLens, N \in Subbands, t \in BasisTypes :
          CallCoreModulation(k, lfb, N, t)

SpecMDCT == InitMDCT /\ [][NextMDCT]_vars

(***************************************************************************)
(* Properties of the DFT / iDFT pair.                                      *)
(***************************************************************************)
\* the frame came back as x*w: sample i of y, kept times 2*Nsyn, is 2*Nsyn*x[i]*w[i]
ReconstructsWindowedFrame ==
    /\ frame.outcome = "return"
    /\ Len(frame.y) = Len(frame.x)
    /\ \A i \in 1..Len(frame.x) :
          frame.y[i] = <<2 * frame.Nsyn * frame.x[i] * frame.w[i], 0>>

\* the case of the round-trip claims: a frame given to DFT with N >= wsz and
\* nowhere-zero window, and, once synthesised, synthesised with wsz = len(w)
RoundTripCase ==
    /\ frame.stage \in {"analysed", "synthesised"}
    /\ frame.N >= Len(frame.w)
    /\ \A i \in 1..Len(frame.w) : frame.w[i] # 0
    /\ frame.stage = "synthesised" => frame.wsz = Len(frame.w)

\* C4 (as claimed): for any frame length wsz >= 1, any FFT size N >= wsz, even
\* or odd, and any window without zero entries, DFT followed by iDFT with
\* wsz = len(w) raises nothing and returns x*w sample for sample.
C4_RoundTripAnySize ==
    RoundTripCase =>
       /\ frame.outcome = "return"
       /\ frame.stage = "synthesised" => ReconstructsWindowedFrame

\* C5 (as claimed): for even N >= wsz and every frame length wsz, the size
\* iDFT infers from the bins is the N of DFT and iDFT(DFT(x, w, N), wsz)
\* raises nothing and returns x*w.
C5_RoundTripEvenSize ==
    (RoundTripCase /\ frame.N % 2 = 0) =>
       /\ frame.outcome = "return"
       /\ frame.stage = "synthesised" => (frame.Nsyn = frame.N /\ ReconstructsWindowedFrame)

\* C4 without the one-sample frame, on which DFT raises.
RoundTripAnySizeTwoSamples ==
    (RoundTripCase /\ Len(frame.w) >= 2) =>
       /\ frame.outcome = "return"
       /\ frame.stage = "synthesised" => ReconstructsWindowedFrame

\* What the code does deliver: frames of two samples or more, even N.
RoundTripEvenSizeTwoSamples ==
    (RoundTripCase /\ frame.N % 2 = 0 /\ Len(frame.w) >= 2) =>
       /\ frame.outcome = "return"
       /\ frame.stage = "synthesised" => (frame.Nsyn = frame.N /\ ReconstructsWindowedFrame)

(***************************************************************************)
(* Comparing scaled values.  u / sqrt(d) = v / sqrt(e) for complex u, v    *)
(* and positive integers d, e exactly when e*u^2 = d*v^2 and the real part *)
(* of u * conj(v) is not negative.                                         *)
(***************************************************************************)
\* p + q*sqrt(3) >= 0
NonNegative(r) ==
    LET p == r[1]
        q == r[2]
    IN  IF p >= 0 /\ q >= 0 THEN TRUE
        ELSE IF p <= 0 /\ q <= 0 THEN FALSE
        ELSE IF p > 0 THEN p * p >= 3 * q * q
        ELSE 3 * q * q >= p * p

ScaledEq(u, d, v, e) ==
    /\ CScale(e, CMul(u, u)) = CScale(d, CMul(v, v))
    /\ NonNegative(TwiceRe(CMul(u, CConj(v))))

SameRow(r1, r2) ==
    /\ Len(r1.bins) = Len(r2.bins)
    /\ \A k \in 1..Len(r1.bins) : ScaledEq(r1.bins[k], r1.den, r2.bins[k], r2.den)

SameSpectrogram(s1, s2) ==
    /\ Len(s1) = Len(s2)
    /\ \A r \in 1..Len(s1) : SameRow(s1[r], s2[r])

SameWindow(v, w) ==
    /\ Len(v.base) = Len(w.base)
    /\ \A i \in 1..Len(v.base) : ScaledEq(CInt(v.base[i]), v.den, CInt(w.base[i]), w.den)

AllZeroRow(r) == \A k \in 1..Len(r.bins) : r.bins[k] = CZero

(***************************************************************************)
(* Properties of STFT and MCSTFT.                                          *)
(***************************************************************************)
\* C2 (as claimed): after MCSTFT(x, w, N, hop) the spectrogram stored for every
\* channel c is what STFT(x[:, c], w, N, hop) returns when called alone with
\* the window as the caller passed it, however many channels came before c.
C2_ChannelsAnalysedAlike ==
    (stft.op = "MCSTFT" /\ stft.outcome = "return") =>
       \A c \in 1..Len(sig.xs) :
          SameSpectrogram(stft.out[c], STFT(sig.xs[c], stft.wIn, sig.N, sig.hop).rows)

\* C3 (as claimed): after any number k >= 1 of STFT calls passed the same window
\* array, the array holds the constructed window times 1/sqrt(N), once.
C3_WindowScaledOnce ==
    ncalls >= 1 => SameWindow(win, [base |-> win.base, den |-> sig.N])

\* the padded signal of the last STFT call, written out
PaddedOfLastCall ==
    LET x == sig.xs[stft.channel]
    IN  [i \in 1..(Len(x) + 6 * sig.hop) |->
           IF i > 3 * sig.hop /\ i <= 3 * sig.hop + Len(x) THEN x[i - 3 * sig.hop] ELSE 0]

\* the core transform of the window-length segment at offset k*hop, with the
\* window as the call left it
TransformOfSegment(k) ==
    [bins |-> DFT([i \in 1..Len(win.base) |-> PaddedOfLastCall[k * sig.hop + i]],
                  win.base, sig.N).bins,
     den |-> win.den]

C1_MatrixRowsMatchCall ==
    lastCall.op \in {"real_analysis", "real_synthesis"} =>
       /\ lastCall.usedRows = lastCall.N
       /\ Cos.defined /\ Cos.rows = lastCall.N
       /\ lastCall.cachedRows # lastCall.N => lastCall.rebuilt
       /\ lastCall.hit => lastCall.cachedRows = lastCall.N

\* C1 witness: a call found a matrix of another subband count in the cache,
\* rebuilt it and projected at least one block onto the new one.
C1_Witness ==
    /\ lastCall.op \in {"real_analysis", "real_synthesis"}
    /\ lastCall.cachedRows \notin {0, lastCall.N}
    /\ lastCall.rebuilt
    /\ lastCall.usedRows = lastCall.N
    /\ lastCall.blocks >= 1

\* C9 (as claimed): coreModulation with a type other than 'MDCT' and
\* 'PQMF-polyphase' raises and neither returns nor stores a matrix, and
\* PsychoacousticModel with a type other than 'rasta' and 'peaq' raises
\* during construction.
C9_UnknownTypeRaises ==
    /\ (lastCall.op = "coreModulation" /\ lastCall.usedBasis \notin {"MDCT", "PQMF-polyphase"})
          => (lastCall.outcome # "return" /\ ~lastCall.rebuilt)
    /\ (lastCall.op = "PsychoacousticModel" /\ lastCall.usedBasis \notin {"rasta", "peaq"})
          => (lastCall.outcome # "return" /\ ~pm.built)

\* What the code does deliver of C9: the constructor of PsychoacousticModel
\* raises on an unknown type and builds nothing.
UnknownBarkTypeRaises ==
    (lastCall.op = "PsychoacousticModel" /\ lastCall.usedBasis \notin {"rasta", "peaq"})
       => (lastCall.outcome = "UnboundLocalError" /\ ~pm.built)

(***************************************************************************)
(* Properties of the overlap-add of iSTFT.                                 *)
(***************************************************************************)
RECURSIVE GCD(_, _)
GCD(a, b) == IF b = 0 THEN a ELSE GCD(b, a % b)

RECURSIVE SqrtFloorFrom(_, _)
SqrtFloorFrom(m, r) == IF (r + 1) * (r + 1) > m THEN r ELSE SqrtFloorFrom(m, r + 1)
SqrtFloor(m) == SqrtFloorFrom(m, 0)
IsSquare(m) == SqrtFloor(m) * SqrtFloor(m) = m

\* fractions n/d of naturals, d > 0, in lowest terms
Reduced(n, d) == [n |-> n \div GCD(n, d), d |-> d \div GCD(n, d)]
FracAdd(f, g) ==
    IF f.d = g.d THEN Reduced(f.n + g.n, f.d)
    ELSE Reduced(f.n * g.d + g.n * f.d, f.d * g.d)

RECURSIVE FracSum(_, _, _)
FracSum(f, lo, hi) == IF lo > hi THEN [n |-> 0, d |-> 1] ELSE FracAdd(f[lo], FracSum(f, lo + 1, hi))

\* the frames STFT transformed: the rows k with k*hop + wsz <= L + 6*hop
FramesTransformed ==
    LET P == Len(sig.xs[1]) + 6 * sig.hop
    IN  IF P < syn.wsz THEN 0 ELSE ((P - syn.wsz) \div sig.hop) + 1

\* the window offsets i (0-based) whose frame adds at buffer index b
OffsetsAt(b) == {i \in 0..(syn.wsz - 1) : (b - i) % syn.hop = 0}

\* b is covered by full window overlap: at every offset a transformed frame
\* adds there
FullyCovered(b) ==
    \A i \in OffsetsAt(b) : b - i >= 0 /\ (b - i) \div syn.hop < FramesTransformed

\* The overlap-added product of the analysis window (win, as STFT used it:
\* base[i]/sqrt(den)) and the synthesis window (rs: num[i]*sqrt(rad)/env[i])
\* at buffer index b is sqrt(rad/den) * sum of base[i]*num[i]/env[i] over the
\* offsets that add at b.  It is 1 exactly when rad/den is the square of a
\* fraction r1/r2 and the sum, n/d, has n*r1 = d*r2.
WindowProductSum(b) ==
    LET f == [i1 \in 1..syn.wsz |->
                IF (i1 - 1) \in OffsetsAt(b)
                THEN Reduced(win.base[i1] * syn.rs.num[i1], syn.rs.env[i1])
                ELSE [n |-> 0, d |-> 1]]
    IN  FracSum(f, 1, syn.wsz)

WindowProductSumsToOne(b) ==
    LET s == WindowProductSum(b)
        g == GCD(syn.rs.rad, win.den)
        a == syn.rs.rad \div g
        c == win.den \div g
    IN  /\ IsSquare(a)
        /\ IsSquare(c)
        /\ s.n * SqrtFloor(a) = s.d * SqrtFloor(c)

\* the case of C6: iSTFT with smt on what STFT returned, hop <= wsz/2
SmoothedRoundTrip ==
    /\ syn.op = "iSTFT"
    /\ syn.fromSTFT
    /\ syn.smt
    /\ 2 * syn.hop <= syn.wsz

\* C6 (as claimed): for hop <= wsz/2 and smt, iSTFT of what STFT returned
\* raises nothing, and at every buffer index covered by full window overlap
\* the overlap-added product of the analysis window STFT used and the
\* synthesis window of GLA(wsz, hop, 2*(wsz-1)) is exactly 1, whatever window
\* and FFT size the caller chose.
C6_WindowProductsSumToOne ==
    SmoothedRoundTrip =>
       /\ syn.outcome = "return"
       /\ \A b \in 0..(syn.bufLen - 1) : FullyCovered(b) => WindowProductSumsToOne(b)

\* What the code does deliver of C6: the product sums to 1 when the analysis
\* window is hamming(wsz), the FFT size is 2*(wsz-1) and the window array has
\* been through STFT once.
HammingAtMatchedSizeSumsToOne ==
    (SmoothedRoundTrip /\ syn.outcome = "return" /\ sig.N = 2 * (syn.wsz - 1)
       /\ win = [base |-> Hamming100(syn.wsz), den |-> HammingUnit * HammingUnit * sig.N]) =>
       \A b \in 0..(syn.bufLen - 1) : FullyCovered(b) => WindowProductSumsToOne(b)

\* the case of HammingAtMatchedSizeSumsToOne is reached, with covered samples
HammingAtMatchedSizeReached ==
    /\ SmoothedRoundTrip /\ syn.outcome = "return" /\ sig.N = 2 * (syn.wsz - 1)
    /\ win = [base |-> Hamming100(syn.wsz), den |-> HammingUnit * HammingUnit * sig.N]
    /\ \E b \in 0..(syn.bufLen - 1) : FullyCovered(b) /\ Cardinality(OffsetsAt(b)) >= 2

(***************************************************************************)
(* Properties of the de-padding.                                           *)
(***************************************************************************)
Synthesised == syn.op \in {"iSTFT", "istfrft"} /\ syn.outcome \notin {"none", "given"}

\* C8 (as claimed): iSTFT and istfrft raise whenever the overlap-add buffer
\* of numFr*hop + wsz samples has fewer than 6*hop + 1 samples; they never
\* return a signal, truncated or empty, in that case.
C8_ShortBufferRaises ==
    (Synthesised /\ syn.bufLen < 6 * syn.hop + 1) => syn.outcome # "return"

\* What the code does deliver: a buffer of 6*hop + 1 samples or more loses
\* 3*hop samples at its start and 3*hop + 1 at its end.
LongBufferDePadded ==
    (Synthesised /\ syn.outcome = "return" /\ syn.bufLen >= 6 * syn.hop + 1) =>
       syn.keep = [i \in 1..(syn.bufLen - 6 * syn.hop - 1) |-> 3 * syn.hop + i - 1]

(***************************************************************************)
(* Properties of the PQMF wrappers.                                        *)
(***************************************************************************)
\* C10 (as claimed): pqmf_analysis raises a configuration error whenever
\* len(x) is not a multiple of the block size of 1024 and never drops
\* trailing samples, and every pqmf_analysis / pqmf_synthesis call resets the
\* codec before its first block.
C10_PartialBlockRaises ==
    /\ (pq.op = "pqmf_analysis" /\ pq.len % BlockSize # 0) => pq.outcome # "return"
    /\ pq.op = "pqmf_analysis" => pq.dropped = 0
    /\ pq.op \in {"pqmf_analysis", "pqmf_synthesis"} =>
          (Len(pq.events) >= 1 /\ pq.events[1] = "reset_rt")

\* What the code does deliver of C10: with the codec imported, every call
\* resets it first and then filters floor(len/1024) blocks, or the rows given.
ResetBeforeFirstBlock ==
    (pq.op \in {"pqmf_analysis", "pqmf_synthesis"} /\ qrf.present) =>
       /\ pq.outcome = "return"
       /\ pq.events[1] = "reset_rt"
       /\ \A m \in 2..Len(pq.events) : pq.events[m] = "block"
       /\ Len(pq.events) = pq.slots + 1
       /\ qrf.blocks = pq.slots

(***************************************************************************)
(* Properties of frft and ifrft.                                           *)
(***************************************************************************)
SameArray(u, v) ==
    /\ u.kind = "exact" /\ v.kind = "exact"
    /\ u.len = v.len
    /\ \A i \in 1..u.len : ScaledEq(u.vals[i], u.den, v.vals[i], v.den)

Reversed(u, v) ==
    /\ u.kind = "exact" /\ v.kind = "exact"
    /\ u.len = v.len
    /\ \A i \in 1..u.len : ScaledEq(u.vals[i], u.den, v.vals[v.len + 1 - i], v.den)

\* the order of the call is an integer (a4 is 4*a)
IntegerOrder == fr.a4 % 4 = 0
OrderMod4 == (fr.a4 \div 4) % 4

\* C11: frft reduces the order modulo 4: for every integer order a with
\* a mod 4 = 0 it returns f unchanged, for a mod 4 = 2 it returns f reversed,
\* for a mod 4 = 1 and 3 it takes the FFT and the inverse FFT branch, and no
\* integer order reaches the chirp convolution.
C11_IntegerOrdersSpecialCased ==
    (fr.stage = "analysed" /\ IntegerOrder) =>
       /\ fr.branch # "chirp"
       /\ OrderMod4 = 0 => (fr.branch = "identity" /\ fr.outcome = "return" /\ fr.g = fr.f)
       /\ OrderMod4 = 2 => (fr.branch = "reversal" /\ fr.outcome = "return"
                              /\ Reversed(fr.g, fr.f) /\ fr.g.den = fr.f.den)
       /\ OrderMod4 = 1 => fr.branch = "fft"
       /\ OrderMod4 = 3 => fr.branch = "ifft"

\* C11 witness: frft with the order -2 returned a signal of three samples
\* reversed, the reverse being another signal.
C11_Witness ==
    /\ fr.stage = "analysed"
    /\ fr.a4 = 0 - 8
    /\ fr.f.len = 3
    /\ fr.branch = "reversal"
    /\ Reversed(fr.g, fr.f)
    /\ fr.g # fr.f

\* the branch that undoes a branch of the integer orders
Undoes(b) ==
    CASE b = "identity" -> "identity"
      [] b = "reversal" -> "reversal"
      [] b = "fft" -> "ifft"
      [] b = "ifft" -> "fft"
      [] OTHER -> "none"

\* C12 (as claimed): for any order a and any f, frft(f, a) and then
\* ifrft(., a) raise nothing and return an array of the length of f; at the
\* integer orders the second call takes the branch that undoes the first
\* and returns f.  (At the other orders the values are not compared.)
C12_RoundTripAnyOrder ==
    fr.stage \in {"analysed", "synthesised"} =>
       /\ fr.outcome = "return"
       /\ fr.stage = "synthesised" =>
             /\ fr.y.len = fr.f.len
             /\ IntegerOrder => (fr.back = Undoes(fr.branch) /\ SameArray(fr.y, fr.f))

\* What the code does deliver of C12: at the integer orders, on a signal
\* that is not empty, the round trip returns f.
RoundTripIntegerOrders ==
    (fr.stage \in {"analysed", "synthesised"} /\ IntegerOrder /\ fr.f.len >= 1) =>
       /\ fr.outcome = "return"
       /\ fr.stage = "synthesised" => (fr.back = Undoes(fr.branch) /\ SameArray(fr.y, fr.f))

\* and at every order, on two samples or more, it returns the length of f.
RoundTripKeepsLength ==
    (fr.stage \in {"analysed", "synthesised"} /\ fr.f.len >= 2) =>
       /\ fr.outcome = "return"
       /\ fr.stage = "synthesised" => fr.y.len = fr.f.len

(***************************************************************************)
(* Properties of the masking threshold.                                    *)
(***************************************************************************)
AllZero(mX) == \A t \in 1..Len(mX) : \A k \in 1..Len(mX[t]) : mX[t][k] = 0

\* An entry of the threshold of a frame is zero: no NaN enters it and every
\* bin it is made of is zero.
ZeroEntry(e, f) == ~e.nan /\ \A k \in e.deps : f[k + 1] = 0

\* The entry is the same number for the frames f and g,
SameEntry(e, f, g) == ~e.nan /\ \A k \in e.deps : g[k + 1] = f[k + 1]

\* and for g it is not below what it is for f.
NotBelow(e, f, g) == ~e.nan /\ \A k \in e.deps : g[k + 1] >= f[k + 1]

ZeroThreshold ==
    /\ psy.outcome = "return"
    /\ \A t \in 1..Len(psy.mX) : \A b \in 1..Len(psy.res) : ZeroEntry(psy.res[b], psy.mX[t])

\* C13 (as claimed): for an all-zero magnitude spectrogram maskingThreshold
\* returns an all-zero threshold, in every configuration, those in which
\* some Bark band contains no FFT bin included.
C13_ZeroSpectrogramZeroThreshold ==
    (psy.op = "maskingThreshold" /\ AllZero(psy.mX)) => ZeroThreshold

\* What the code does deliver: the threshold of an all-zero spectrogram is
\* zero where every band of W has a bin and there are no more bands than
\* nfreqs,
ZeroThresholdWhereEveryBandHasABin ==
    (psy.op = "maskingThreshold" /\ AllZero(psy.mX)
        /\ pm.nanBands = {} /\ pm.nfilts <= pm.nfreqs) => ZeroThreshold

\* and NaN in every entry where a band has none.
EmptyBandGivesNaN ==
    (psy.op = "maskingThreshold" /\ psy.outcome = "return" /\ pm.nanBands # {}) =>
       \A b \in 1..Len(psy.res) : psy.res[b].nan

EmptyBandReached ==
    /\ psy.op = "maskingThreshold"
    /\ psy.outcome = "return"
    /\ AllZero(psy.mX)
    /\ pm.nanBands # {}

\* The threshold of the spectrogram second, which is psy.mX but for bin k of
\* frame t, is not below that of psy.mX in frame t and equal to it elsewhere.
MonotoneAt(t, k, v) ==
    LET second == [psy.mX EXCEPT ![t][k] = v]
        r == maskingThreshold(pm, Len(second[1]))
    IN  /\ psy.outcome = "return"
        /\ r.outcome = "return"
        /\ \A u \in 1..Len(second) : \A b \in 1..Len(r.out) :
              IF u = t THEN NotBelow(r.out[b], psy.mX[u], second[u])
                       ELSE SameEntry(r.out[b], psy.mX[u], second[u])

\* C14 (as claimed): of two spectrograms that differ in one bin of one frame,
\* the second being the larger there, the threshold of the second is not
\* below that of the first in any bin of that frame, and is the same in every
\* other frame.
C14_ThresholdMonotone ==
    psy.op = "maskingThreshold" =>
       \A t \in 1..Len(psy.mX) : \A k \in 1..Len(psy.mX[t]) :
          \A v \in Magnitudes : v > psy.mX[t][k] => MonotoneAt(t, k, v)

\* What the code does deliver: the same where every band of W has a bin and
\* there are no more bands than nfreqs.
MonotoneWhereEveryBandHasABin ==
    (psy.op = "maskingThreshold" /\ pm.nanBands = {} /\ pm.nfilts <= pm.nfreqs) =>
       \A t \in 1..Len(psy.mX) : \A k \in 1..Len(psy.mX[t]) :
          \A v \in Magnitudes : v > psy.mX[t][k] => MonotoneAt(t, k, v)

(***************************************************************************)
(* Properties of NMREval.                                                  *)
(***************************************************************************)
\* C15 (as claimed): NMREval(x, x) analyses both signals with the same
\* window, FFT size and hop, drops the first and the last four frames, finds
\* a zero squared error in every frame it keeps and returns
\* 10 * log10(1e-12) = -120 dB, never an undefined value.
C15_IdenticalSignalsAtFloor ==
    (psy.op = "NMREval" /\ psy.xn = psy.xnhat) =>
       /\ psy.outcome = "return"
       /\ SameWindow(psy.res.wins[1], psy.res.wins[2])
       /\ psy.res.zeroErr
       /\ psy.res.value = "floor"

\* What the code does deliver: -120 dB for identical signals of which a frame
\* is left, on an instance whose every band has a bin.
IdenticalSignalsAtFloorWhereFramesAreLeft ==
    (psy.op = "NMREval" /\ psy.xn = psy.xnhat /\ psy.outcome = "return"
        /\ psy.res.frames >= 1 /\ pm.nanBands = {}) =>
       /\ SameWindow(psy.res.wins[1], psy.res.wins[2])
       /\ psy.res.dropped = <<8, 8>>
       /\ psy.res.zeroErr
       /\ psy.res.value = "floor"

ShortSignalsGiveNaN ==
    (psy.op = "NMREval" /\ psy.outcome = "return" /\ psy.res.frames = 0) =>
       psy.res.value = "nan"

ShortSignalsReached ==
    /\ psy.op = "NMREval"
    /\ psy.xn = psy.xnhat
    /\ psy.outcome = "return"
    /\ psy.res.frames = 0
    /\ pm.nanBands = {}

C18_RastaZeroFiltersSucceeds ==
    (lastCall.op = "PsychoacousticModel" /\ lastCall.usedBasis = "rasta"
        /\ lastCall.nfilts = 0) =>
       /\ lastCall.outcome = "return"
       /\ pm.built
       /\ pm.Wrows = AutoFilters

\* What the code does deliver: nfilts = 0 raises ZeroDivisionError in the
\* constructor and leaves no instance.
ZeroFiltersRaises ==
    (lastCall.op = "PsychoacousticModel" /\ lastCall.nfilts = 0) =>
       (lastCall.outcome = "ZeroDivisionError" /\ ~pm.built)

(***************************************************************************)
(* Properties of the ratios.                                               *)
(***************************************************************************)
Positive(d) == d.whole > 0 \/ (d.whole = 0 /\ d.eps > 0)

Metrics == {"PSR", "SIR", "l1l2_sparsity_measure", "gini_index"}

\* C19 (as claimed): no ratio divides by zero: the denominators of PSR, SIR,
\* l1l2_sparsity_measure and gini_index are strictly positive, so are the
\* mT + 1e-12 that NMREval inverts, and each of them returns a finite value.
C19_NoDivisionByZero ==
    /\ psy.op \in Metrics =>
          /\ psy.outcome = "return"
          /\ \A d \in 1..Len(psy.res) : Positive(psy.res[d])
    /\ psy.op = "NMREval" =>
          /\ psy.outcome = "return"
          /\ ~psy.res.nanT
          /\ psy.res.value \in {"floor", "above"}

\* What the code does deliver: the four metrics divide by positive numbers.
MetricDenominatorsPositive ==
    psy.op \in Metrics =>
       /\ psy.outcome = "return"
       /\ \A d \in 1..Len(psy.res) : Positive(psy.res[d])

MetricDivides == psy.op = "gini_index" /\ Len(psy.res) >= 2

(***************************************************************************)
(* Properties of the concurrent callers.                                   *)
(***************************************************************************)
Other(i) == 3 - i

\* The step in which caller i finds that the global does not fit its block.
ProjectsAmiss(i) ==
    /\ thr[i].pc = "project"
    /\ thr'[i].pc = "done"
    /\ thr'[i].outcome = "ValueError"

\* C17: the cache is not safe for concurrent callers: a caller can come to
\* project a block onto a matrix whose row count is not its N; when it does,
\* the matrix is the one the other caller has stored in the global since.
C17_ProjectsOntoOtherCallersMatrix ==
    [][\A i \in Callers :
          ProjectsAmiss(i) => (/\ Cos.rows # thr[i].N
                               /\ thr[Other(i)].stored = Cos.rows
                               /\ thr'[i].usedRows = Cos.rows)]_vars

C17_Witness ==
    \E i \in Callers :
       /\ thr[i].pc = "done"
       /\ thr[i].outcome = "ValueError"
       /\ thr[i].usedRows # thr[i].N
       /\ thr[i].usedRows = thr[Other(i)].N

(***************************************************************************)
(* Properties of the samples iSTFT returns.                                *)
(***************************************************************************)
\* C20 (as claimed): iSTFT removes exactly 3*hop samples from the start of the
\* buffer and exactly 3*hop from its end: it returns numFr*hop + wsz - 6*hop
\* samples, of which the first is the buffer's sample 3*hop.
C20_SixHopsRemoved ==
    (syn.op = "iSTFT" /\ syn.outcome = "return") =>
       /\ Len(syn.keep) = syn.numFr * syn.hop + syn.wsz - 6 * syn.hop
       /\ Len(syn.keep) >= 1 => syn.keep[1] = 3 * syn.hop

(***************************************************************************)
(* Properties of the reduction of frft.                                    *)
(***************************************************************************)
\* r of the pre-rotations: +1 for the forward FFT, -1 for the inverse FFT
RotationSum(rots) ==
    ISum([k \in 1..Len(rots) |-> IF rots[k] = "fft" THEN 1 ELSE 0 - 1], 1, Len(rots))

\* C21: for an order a that is no integer, the reduction of frft ends with
\* an order a' in [0.5, 1.5], for which sin(a' * pi / 2) is not zero, after
\* at most one reflection and at most one FFT pre-rotation, and
\* 2 * [reflection] + r + a' is a modulo 4, with r = +1 for the forward and
\* -1 for the inverse pre-rotation.  (Orders are counted in quarters.)
C21_ReductionKeepsOrder ==
    (fr.stage \in {"analysed", "synthesised"} /\ ~IntegerOrder) =>
       /\ fr.branch = "chirp"
       /\ fr.red.a4 >= 2 /\ fr.red.a4 <= 6
       /\ fr.red.a4 % 8 # 0
       /\ fr.red.flips <= 1
       /\ Len(fr.red.rots) <= 1
       /\ (8 * fr.red.flips + 4 * RotationSum(fr.red.rots) + fr.red.a4) % 16 = fr.a4 % 16

\* An order of 2.25: reflected, and then rotated back.
C21_Witness ==
    /\ fr.stage = "analysed"
    /\ fr.a4 % 16 = 9
    /\ fr.red.flips = 1
    /\ fr.red.rots = <<"ifft">>
    /\ fr.red.a4 = 5

(***************************************************************************)
(* Properties of the blocks real_analysis projects.                        *)
(***************************************************************************)
\* The hop-aligned blocks x[m*N : m*N + 2N] that lie inside a signal of L samples
BlocksInside(L, N) == IF L >= 2 * N THEN ((L - 2 * N) \div N) + 1 ELSE 0

AlignedSignal ==
    /\ lastCall.op = "real_analysis"
    /\ Len(sig.xs[1]) % sig.N = 0
    /\ Len(sig.xs[1]) >= 2 * sig.N

\* C22 (as claimed): for a signal of L samples, L a multiple of N and
\* L >= 2N, real_analysis projects every block m = 0 .. L/N - 2, which are the
\* hop-aligned blocks of 2N samples inside the signal, and no block reads
\* past the end of x.
C22_EveryBlockInsideProjected ==
    AlignedSignal =>
       /\ lastCall.outcome = "return"
       /\ lastCall.blocks = BlocksInside(Len(sig.xs[1]), sig.N)
       /\ lastCall.blocks = Len(sig.xs[1]) \div sig.N - 1

\* What the code does deliver: where the matrix fits, the blocks
\* m = 0 .. L/N - 3 are projected, one fewer than lie inside the signal, and
\* the last of them ends N samples before the end of x.
AllButTheLastBlockProjected ==
    (AlignedSignal /\ lastCall.outcome = "return") =>
       /\ lastCall.blocks = BlocksInside(Len(sig.xs[1]), sig.N) - 1
       /\ lastCall.blocks >= 1 =>
             (lastCall.blocks - 1) * sig.N + 2 * sig.N = Len(sig.xs[1]) - sig.N

LastBlockLeftOut ==
    /\ AlignedSignal
    /\ lastCall.outcome = "return"
    /\ lastCall.usedBasis = "MDCT"
    /\ lastCall.blocks >= 1

(***************************************************************************)
(* Properties of the matrix a cache hit delivers.                          *)
(***************************************************************************)
\* C25 (as claimed): after any sequence of coreModulation, real_analysis and
\* real_synthesis calls, the matrix a real_analysis or real_synthesis call
\* with N subbands applies is the MDCT basis of the cosine window of length
\* 2N, of N rows and 2N columns, on a cache hit as well.
C25_HitDeliversMDCTOfCosine ==
    lastCall.op \in {"real_analysis", "real_synthesis"} =>
       /\ lastCall.usedBasis = "MDCT"
       /\ lastCall.usedWin = "cosine"
       /\ lastCall.usedRows = lastCall.N
       /\ lastCall.usedCols = 2 * lastCall.N

\* What the code does deliver: a call that builds the matrix itself gets
\* that basis; a hit gets whatever matrix of N rows is in the global.
RebuiltIsMDCTOfCosine ==
    (lastCall.op \in {"real_analysis", "real_synthesis"} /\ lastCall.rebuilt) =>
       /\ lastCall.usedBasis = "MDCT"
       /\ lastCall.usedWin = "cosine"
       /\ lastCall.usedRows = lastCall.N
       /\ lastCall.usedCols = 2 * lastCall.N

HitOnForeignMatrix ==
    /\ lastCall.op \in {"real_analysis", "real_synthesis"}
    /\ lastCall.hit
    /\ lastCall.usedBasis = "PQMF-polyphase"
    /\ lastCall.usedCols = 2 * lastCall.N
    /\ lastCall.blocks >= 1

(***************************************************************************)
(* Properties of the energy envelope of GLA.                               *)
(***************************************************************************)
\* The squared window values at the positions i congruent to j modulo hop,
\* each once (positions counted from 1).
ResidueClassEnergy(H, j, hop) ==
    ISum([i \in 1..Len(H) |-> IF (i - j) % hop = 0 THEN H[i] * H[i] ELSE 0], 1, Len(H))

\* C23: in GLA(wsz, hop, N) with 1 <= hop <= wsz, env[j] is the sum of the
\* squared window values at exactly the positions congruent to j modulo hop,
\* each counted once; env is hop-periodic over the window and positive
\* wherever the window is not zero.
C23_EnvelopeSumsResidueClass ==
    (syn.op = "GLA" /\ syn.outcome = "return" /\ syn.hop <= syn.wsz) =>
       \A j \in 1..syn.wsz :
          /\ syn.rs.env[j] = ResidueClassEnergy(syn.rs.num, j, syn.hop)
          /\ j + syn.hop <= syn.wsz => syn.rs.env[j + syn.hop] = syn.rs.env[j]
          /\ syn.rs.num[j] # 0 => syn.rs.env[j] > 0

\* A window of five samples at hop 2: the envelope at the first sample sums
\* the samples 1, 3 and 5.
C23_Witness ==
    /\ syn.op = "GLA"
    /\ syn.outcome = "return"
    /\ syn.wsz = 5
    /\ syn.hop = 2
    /\ syn.rs.env[1] = syn.rs.num[1] * syn.rs.num[1] + syn.rs.num[3] * syn.rs.num[3]
                          + syn.rs.num[5] * syn.rs.num[5]

(***************************************************************************)
(* Properties of the spreading of maskingThreshold.                        *)
(***************************************************************************)
Spread == psy.op = "maskingThreshold" /\ psy.outcome = "return"

\* C24: the Bark-domain threshold of band n of a frame has one term for
\* every other band m of that frame and none for n or for another frame, with
\* the slope fb to the power (n - m) * fc for m < n and fbb to the power
\* (m - n) * fc for m > n; where no band of the frame but n has energy, the
\* threshold of n is zero.
C24_SpreadsEveryOtherBandOnce ==
    Spread =>
       \A t \in 1..Len(psy.bark) : \A n \in 1..Len(psy.bark[t].mT) :
          LET terms == psy.bark[t].mT[n].terms
              of(m) == {i \in 1..Len(terms) : terms[i].band = m}
          IN  /\ \A m \in 1..Len(psy.bark[t].mT) :
                    Cardinality(of(m)) = IF m = n THEN 0 ELSE 1
              /\ \A i \in 1..Len(terms) :
                    /\ terms[i].frame = t
                    /\ terms[i].band \in 1..Len(psy.bark[t].mT)
                    /\ terms[i].band < n =>
                          terms[i].slope = "fb" /\ terms[i].steps = n - terms[i].band
                    /\ terms[i].band > n =>
                          terms[i].slope = "fbb" /\ terms[i].steps = terms[i].band - n
              /\ psy.bark[t].energy \subseteq {n} => psy.bark[t].mT[n].zero

\* Two frames over three bands or more, one of them with its energy in one
\* band only: that band has the threshold zero, its neighbours have not.
C24_Witness ==
    /\ Spread
    /\ Len(psy.bark) = 2
    /\ \E t \in 1..2 : \E n \in 1..Len(psy.bark[t].mT) :
          /\ Len(psy.bark[t].mT) >= 3
          /\ psy.bark[t].energy = {n}
          /\ psy.bark[t].mT[n].zero
          /\ \A m \in 1..Len(psy.bark[t].mT) : m # n => ~psy.bark[t].mT[m].zero

(***************************************************************************)
(* Properties of the bin count maskingThreshold takes.                     *)
(***************************************************************************)
\* maskingThreshold was called on frames of nfft/2 + 1 bins by an instance
\* with no more filters than nfft/2.
CalledOnSTFTBins ==
    /\ psy.op = "maskingThreshold"
    /\ pm.built
    /\ pm.nfilts <= pm.nfft \div 2
    /\ Len(psy.mX[1]) = pm.nfft \div 2 + 1

\* C26: for an even FFT size N and no more than N/2 filters, maskingThreshold
\* takes the N/2 + 1 bins a frame that STFT produces and returns as many
\* frames of as many bins: the slice of W it takes has the input's bin count.
C26_AcceptsSTFTBins ==
    CalledOnSTFTBins =>
       /\ ColumnsUsed(pm, Len(psy.mX[1])) = Len(psy.mX[1])
       /\ psy.outcome = "return"
       /\ Len(psy.bark) = Len(psy.mX)
       /\ Len(psy.res) = Len(psy.mX[1])

\* Where N/2 + 1 is odd the call returns as many frames of as many bins.
OddBinCountAccepted ==
    (CalledOnSTFTBins /\ Len(psy.mX[1]) % 2 = 1) =>
       /\ psy.outcome = "return"
       /\ Len(psy.bark) = Len(psy.mX)
       /\ Len(psy.res) = Len(psy.mX[1])

\* Where N/2 + 1 is even the N/2 columns of W are taken and np.dot raises.
EvenBinCountRefused ==
    /\ CalledOnSTFTBins
    /\ pm.nfft = 6
    /\ Len(psy.mX[1]) = 4
    /\ ColumnsUsed(pm, Len(psy.mX[1])) = 3
    /\ psy.outcome = "ValueError"

(***************************************************************************)
(* Properties of the length and the alignment of STFT followed by iSTFT.   *)
(***************************************************************************)
\* iSTFT returned on what STFT made of the signal.
RoundTripReturned == syn.op = "iSTFT" /\ syn.fromSTFT /\ syn.outcome = "return"

\* Output index i holds buffer index 3*hop + i, the place of input sample i
\* in the padded signal.
RoundTripAligned ==
    \A i \in 1..Len(syn.keep) : syn.keep[i] = 3 * syn.hop + i - 1

\* C27: iSTFT(STFT(x, w, N, hop), wsz, hop) returns as many samples as x has,
\* with input sample i at output index i.
C27_RoundTripKeepsLength ==
    RoundTripReturned =>
       /\ Len(syn.keep) = Len(sig.xs[1])
       /\ RoundTripAligned

\* What comes back is aligned, and (L // hop) * hop + wsz - 1 samples long.
RoundTripLength ==
    RoundTripReturned =>
       /\ Len(syn.keep) = (Len(sig.xs[1]) \div syn.hop) * syn.hop + syn.wsz - 1
       /\ RoundTripAligned

\* Three samples through a window of two at hop 1 come back as four.
RoundTripLonger ==
    /\ RoundTripReturned
    /\ Len(sig.xs[1]) = 3
    /\ syn.wsz = 2
    /\ syn.hop = 1
    /\ Len(syn.keep) = 4

=============================================================================
